---- MODULE Spec2Model ----
(***************************************************************************)
(* Model of the Qunix kernel scheduler (kernel/scheduler/scheduler.rs,     *)
(* kernel/scheduler/task.rs) and of the process syscalls built on it       *)
(* (kernel/sys/syscalls.rs, kernel/sys/posix/proc.rs).                     *)
(*                                                                         *)
(* The Scheduler struct behind the SCHEDULER mutex is one record; every    *)
(* method is an operator from the struct to the struct it leaves behind,   *)
(* and every action applies one public operation as a whole (the lock is   *)
(* held for the whole call, so calls do not interleave).                   *)
(***************************************************************************)
EXTENDS Integers, Sequences, FiniteSets, TLC

VARIABLES
    SCHEDULER,    \* the Scheduler struct behind the global mutex
    wait_returns, \* history: per pid, how often a wait call of its parent returned it
    ready_order,  \* history: pids of the tasks in state Ready, oldest first
    dispatched,   \* history: some task has been made Running
    arrived,      \* history: the pid the last operation enqueued through
                  \*          add_task, fork or unblock (NoPid if it enqueued none)
    signal_mask,      \* Task::signal_mask of the current task: its set bits
    pending_signals,  \* Task::pending_signals of the current task: its set bits
    thread,             \* the function the interrupted (non-ISR) code is in, and its step
    held,               \* the spin locks that code holds, in acquisition order
    interrupts_enabled, \* the CPU's interrupt flag
    isr,                \* the interrupt handler that is running, and its step
    isr_held,           \* the spin locks the handler holds
    timer_events,       \* history: what the last timer handler run did, in order
    VFS,                \* the VirtualFileSystem struct behind the global mutex
    vfs_panicked,       \* a VFS call has panicked: the kernel has halted
    open_files,         \* the FileDescriptors api::open has returned, oldest first
    open_calls,         \* per task, the api::open call it is in: where it stands,
                        \*   its arguments, its lookup_result and what it returned
    MOUNT_TABLE,        \* the Vec<MountPoint> behind the global mutex
    mount_last,         \* history: the last mount-table call and how it ended
    QSF,                \* the QunixSecurityFramework struct behind the global mutex
    sys_task,           \* the current task: its pid, uid, name, cwd, fds and next_fd
    memory_map,         \* the bootloader's memory map, once it is handed over
    FRAME_ALLOCATOR,    \* the global Option<BootInfoFrameAllocator>
    hal_frame_allocator, \* the BootInfoFrameAllocator local to hal::init
    frames_out,         \* history: the frames the bump allocators returned, in order
    zone,               \* a BitmapFrameAllocator, once it is constructed
    zone_frames,        \* history: the frames it returned that were not given back
    stack_table,        \* the task table, each Task with its kernel_stack pointer
    stack_frees,        \* history: per kernel stack, how often Drop for Task freed it
    fat_table,          \* FatTable::entries
    fat_chain,          \* what the last get_chain call returned
    lfn_entries,        \* read_directory's lfn_entries: the LFN records read so far
    dir_names           \* the names read_directory has produced, oldest first

schedVars == <<SCHEDULER, wait_returns, ready_order, dispatched, arrived>>
sigVars == <<signal_mask, pending_signals>>
irqVars == <<thread, held, interrupts_enabled, isr, isr_held, timer_events>>

vfsVars == <<VFS, vfs_panicked>>

apiVars == <<open_files, open_calls>>

mountVars == <<MOUNT_TABLE, mount_last>>

sysVars == <<QSF, sys_task>>

frameVars == <<memory_map, FRAME_ALLOCATOR, hal_frame_allocator, frames_out>>

zoneVars == <<zone, zone_frames>>

memVars == <<frameVars, zoneVars>>

stackVars == <<stack_table, stack_frees>>

fatVars == <<fat_table, fat_chain>>

dirVars == <<lfn_entries, dir_names>>

vars == <<schedVars, sigVars, irqVars, vfsVars, apiVars, mountVars, sysVars,
          memVars, stackVars, fatVars, dirVars>>

\* what the operations of one part of the kernel leave alone
notSched == <<sigVars, irqVars, vfsVars, apiVars, mountVars,
    sysVars, memVars,
    stackVars, fatVars, dirVars>>
notSig == <<schedVars, irqVars, vfsVars, apiVars, mountVars,
    sysVars, memVars,
    stackVars, fatVars, dirVars>>
notIrq == <<schedVars, sigVars, vfsVars, apiVars, mountVars,
    sysVars, memVars,
    stackVars, fatVars, dirVars>>
notVfs == <<schedVars, sigVars, irqVars, apiVars, mountVars,
    sysVars, memVars,
    stackVars, fatVars, dirVars>>
notVfsApi == <<schedVars, sigVars, irqVars, mountVars,
    sysVars, memVars,
    stackVars, fatVars, dirVars>>
notMount == <<schedVars, sigVars, irqVars, vfsVars, apiVars,
    sysVars, memVars,
    stackVars, fatVars, dirVars>>
notSys == <<schedVars, sigVars, irqVars, apiVars, mountVars, memVars,
    stackVars, fatVars, dirVars>>
notFrame == <<schedVars, sigVars, irqVars, vfsVars, apiVars, mountVars,
    sysVars, zoneVars,
    stackVars, fatVars, dirVars>>
notStack == <<schedVars, sigVars, irqVars, vfsVars, apiVars, mountVars,
    sysVars, memVars, fatVars, dirVars>>
notFat == <<schedVars, sigVars, irqVars, vfsVars, apiVars, mountVars,
    sysVars, memVars, stackVars, dirVars>>
notDir == <<schedVars, sigVars, irqVars, vfsVars, apiVars, mountVars,
    sysVars, memVars, stackVars, fatVars>>
notZone == <<schedVars, sigVars, irqVars, vfsVars, apiVars, mountVars,
    sysVars, frameVars,
    stackVars, fatVars, dirVars>>

----------------------------------------------------------------------------
(* Bounds of the model *)

MaxPid == 3          \* pids handed out by allocate_pid stay <= MaxPid
MaxTicks == 10       \* the tick counter is followed up to MaxTicks
MaxQueue == 2        \* total number of entries in the five ready queues
MaxWaitReturns == 2  \* a child is followed through at most this many wait returns

(* Program constants *)

TIME_SLICE == 10     \* Scheduler::new: time_slice
NUM_PRIORITIES == 5  \* ready_queue: [VecDeque<Pid>; 5]

Idle == 0
Low == 1
Normal == 2
High == 3
RealTime == 4

ECHILD == 0 - 10
EINVAL == 0 - 22
ESRCH == 0 - 3

NoPid == 0           \* Option<Pid>::None (no task ever has pid 0)
NoCode == <<>>       \* Option<i32>::None; Some(c) is <<c>>

Pids == 1..MaxPid
Priorities == 0..(NUM_PRIORITIES - 1)
ExitCodes == {0, 7}                  \* codes passed to exit
SetPriorityInputs == {Low, High}
Wait4Inputs == {0 - 1, 0} \cup Pids   \* the pid argument of wait4 / waitpid

----------------------------------------------------------------------------
(* Sequence helpers *)

Range(s) == {s[i] : i \in 1..Len(s)}

RemoveAt(s, i) == SubSeq(s, 1, i - 1) \o SubSeq(s, i + 1, Len(s))

\* Vec::retain(|t| t.pid != pid)
RetainNotPid(ts, pid) == SelectSeq(ts, LAMBDA t : t.pid # pid)

----------------------------------------------------------------------------
(* Task (kernel/scheduler/task.rs) *)

Task_new(pid) ==
    [pid |-> pid, ppid |-> NoPid, pgid |-> pid, state |-> "Ready",
     priority |-> Normal, exit_code |-> NoCode, children |-> <<>>,
     cpu_time |-> 0]

\* Task::fork without `child.children.clear()`
Task_fork_keeps_children(self, child_pid) ==
    [self EXCEPT !.pid = child_pid,
                 !.ppid = self.pid,
                 !.pgid = child_pid,
                 !.exit_code = NoCode,
                 !.cpu_time = 0]

Task_fork(self, child_pid) ==
    [self EXCEPT !.pid = child_pid,
                 !.ppid = self.pid,
                 !.pgid = child_pid,
                 !.children = <<>>,
                 !.exit_code = NoCode,
                 !.cpu_time = 0]

Task_exit(self, code) ==
    [self EXCEPT !.exit_code = <<code>>, !.state = "Zombie"]

----------------------------------------------------------------------------
(* Scheduler (kernel/scheduler/scheduler.rs) *)

Scheduler_new ==
    [tasks |-> <<>>,
     ready_queue |-> [p \in Priorities |-> <<>>],
     current_pid |-> NoPid,
     next_pid |-> 1,
     idle_pid |-> NoPid,
     ticks |-> 0,
     time_slice |-> TIME_SLICE,
     preemption_enabled |-> TRUE]

\* tasks.iter().position(|t| t.pid == pid): index of the first match, 0 if none
TaskIndex(ts, pid) ==
    IF \E i \in 1..Len(ts) : ts[i].pid = pid
    THEN CHOOSE i \in 1..Len(ts) :
            /\ ts[i].pid = pid
            /\ \A j \in 1..(i - 1) : ts[j].pid # pid
    ELSE 0

HasTask(s, pid) == TaskIndex(s.tasks, pid) # 0

get_task(s, pid) == s.tasks[TaskIndex(s.tasks, pid)]

\* get_task_mut(pid) followed by an assignment of the found task
UpdateTask(s, pid, t) ==
    [s EXCEPT !.tasks = [@ EXCEPT ![TaskIndex(s.tasks, pid)] = t]]

HasCurrent(s) == s.current_pid # NoPid /\ HasTask(s, s.current_pid)

current(s) == get_task(s, s.current_pid)

ready_count(s) ==
    Len(s.ready_queue[0]) + Len(s.ready_queue[1]) + Len(s.ready_queue[2])
        + Len(s.ready_queue[3]) + Len(s.ready_queue[4])

push_back(s, priority, pid) ==
    [s EXCEPT !.ready_queue = [@ EXCEPT ![priority] = Append(@, pid)]]

add_task(s, task) ==
    LET s1 == [s EXCEPT !.tasks = Append(@, task)]
        s2 == push_back(s1, task.priority, task.pid)
    IN  IF s2.next_pid <= task.pid
        THEN [s2 EXCEPT !.next_pid = task.pid + 1]
        ELSE s2

\* allocate_pid returns s.next_pid and leaves this struct
allocate_pid(s) == [s EXCEPT !.next_pid = @ + 1]

\* the priority whose queue select_next pops: the highest non-empty one
SelectedPriority(s) ==
    CHOOSE p \in Priorities :
        /\ s.ready_queue[p] # <<>>
        /\ \A q \in Priorities : q > p => s.ready_queue[q] = <<>>

\* select_next: [pid |-> the Option<Pid> returned, s |-> the struct afterwards]
select_next(s) ==
    IF \E p \in Priorities : s.ready_queue[p] # <<>>
    THEN LET p == SelectedPriority(s)
         IN  [pid |-> Head(s.ready_queue[p]),
              s |-> [s EXCEPT !.ready_queue = [@ EXCEPT ![p] = Tail(@)]]]
    ELSE [pid |-> s.idle_pid, s |-> s]

switch_to(s, next_pid) ==
    LET s1 == [s EXCEPT !.current_pid = next_pid]
    IN  IF HasTask(s1, next_pid)
        THEN LET t == get_task(s1, next_pid)
             IN  UpdateTask(s1, next_pid,
                            [t EXCEPT !.state = "Running", !.cpu_time = @ + 1])
        ELSE s1

\* schedule, lines 110-118: a current task in state Running goes back to the
\* tail of the queue of its priority
requeue_current(s) ==
    IF HasCurrent(s) /\ current(s).state = "Running"
    THEN LET t == current(s)
         IN  push_back(UpdateTask(s, s.current_pid, [t EXCEPT !.state = "Ready"]),
                       t.priority, s.current_pid)
    ELSE s

schedule(s) ==
    IF ~s.preemption_enabled
    THEN s
    ELSE LET s1 == [s EXCEPT !.ticks = @ + 1]
         IN  IF s1.ticks % s1.time_slice # 0
             THEN s1
             ELSE LET s2 == requeue_current(s1)
                      sel == select_next(s2)
                  IN  IF sel.pid # NoPid /\ sel.pid # sel.s.current_pid
                      THEN switch_to(sel.s, sel.pid)
                      ELSE sel.s

\* block_current, lines 137-141: what it hands to schedule()
block_current_mark(s) ==
    IF HasCurrent(s)
    THEN UpdateTask(s, s.current_pid, [current(s) EXCEPT !.state = "Blocked"])
    ELSE s

block_current(s) == schedule(block_current_mark(s))

unblock(s, pid) ==
    IF HasTask(s, pid) /\ get_task(s, pid).state = "Blocked"
    THEN LET t == get_task(s, pid)
         IN  push_back(UpdateTask(s, pid, [t EXCEPT !.state = "Ready"]),
                       t.priority, pid)
    ELSE s

\* sleep, lines 157-159: what it hands to schedule()
sleep_mark(s) ==
    IF HasCurrent(s)
    THEN UpdateTask(s, s.current_pid, [current(s) EXCEPT !.state = "Sleeping"])
    ELSE s

sleep(s) == schedule(sleep_mark(s))

\* exit, lines 165-169: what it hands to schedule()
exit_mark(s, code) ==
    LET s1 == IF HasCurrent(s)
              THEN UpdateTask(s, s.current_pid, Task_exit(current(s), code))
              ELSE s
    IN  [s1 EXCEPT !.current_pid = NoPid]

exit(s, code) == schedule(exit_mark(s, code))

HasZombie(s, pid) ==
    \E i \in 1..Len(s.tasks) : s.tasks[i].pid = pid /\ s.tasks[i].state = "Zombie"

\* tasks.iter().position(|t| t.pid == pid && t.state == Zombie)
ZombieIndex(ts, pid) ==
    CHOOSE i \in 1..Len(ts) :
        /\ ts[i].pid = pid /\ ts[i].state = "Zombie"
        /\ \A j \in 1..(i - 1) : ~(ts[j].pid = pid /\ ts[j].state = "Zombie")

remove_zombie(s, pid) ==
    IF HasZombie(s, pid)
    THEN [s EXCEPT !.tasks = RemoveAt(@, ZombieIndex(s.tasks, pid))]
    ELSE s

set_priority(s, pid, priority) ==
    IF HasTask(s, pid)
    THEN UpdateTask(s, pid, [get_task(s, pid) EXCEPT !.priority = priority])
    ELSE s

\* spawn: allocate_pid, Task::new (which never fails), add_task
spawn(s) == add_task(allocate_pid(s), Task_new(s.next_pid))

\* run_first_task; the caller's pid is in the table (it panics otherwise)
run_first_task(s, pid) ==
    [UpdateTask(s, pid, [get_task(s, pid) EXCEPT !.state = "Running"])
        EXCEPT !.current_pid = pid]

----------------------------------------------------------------------------
(* Process syscalls (kernel/sys/syscalls.rs, kernel/sys/posix/proc.rs).     *)
(* Each returns [s |-> the scheduler afterwards, val |-> the value          *)
(* returned, status |-> what was stored through the status pointer].        *)

sys_fork(s) ==
    IF HasCurrent(s)
    THEN LET cloned_parent == current(s)
             child_pid == s.next_pid
             s1 == allocate_pid(s)
             s2 == add_task(s1, Task_fork(cloned_parent, child_pid))
             s3 == IF HasCurrent(s2)
                   THEN UpdateTask(s2, s2.current_pid,
                            [current(s2) EXCEPT !.children = Append(@, child_pid)])
                   ELSE s2
         IN  [s |-> s3, val |-> child_pid, status |-> NoCode]
    ELSE [s |-> s, val |-> ESRCH, status |-> NoCode]

sys_exit(s, code) == [s |-> exit(s, code), val |-> 0, status |-> NoCode]

\* the Option<Pid> that sys_wait4 looks up (lines 518-529); pid is -1 or > 0
wait4_target(s, pid) ==
    IF pid = 0 - 1
    THEN IF HasCurrent(s) /\ current(s).children # <<>>
         THEN Head(current(s).children)
         ELSE NoPid
    ELSE pid

sys_wait4(s, pid) ==
    IF pid # 0 - 1 /\ pid <= 0
    THEN [s |-> s, val |-> EINVAL, status |-> NoCode]
    ELSE LET tpid == wait4_target(s, pid)
         IN  IF tpid # NoPid /\ HasTask(s, tpid) /\ get_task(s, tpid).state = "Zombie"
             THEN LET child == get_task(s, tpid)
                  IN  [s |-> [s EXCEPT !.tasks = RetainNotPid(@, tpid)],
                       val |-> tpid,
                       status |-> IF child.exit_code = NoCode
                                  THEN <<0>> ELSE child.exit_code]
             ELSE [s |-> s, val |-> ECHILD, status |-> NoCode]

\* posix_waitpid: does child_pid stop the loop over current.children
WaitpidMatches(s, pid, child_pid) ==
    /\ pid = 0 - 1 \/ pid = child_pid
    /\ HasTask(s, child_pid)
    /\ get_task(s, child_pid).state = "Zombie"
    /\ get_task(s, child_pid).exit_code # NoCode

\* Err(FsError::InvalidArgument) is shown as the errno it maps to, -22;
\* *status = code << 8
posix_waitpid(s, pid) ==
    IF ~HasCurrent(s)
    THEN [s |-> s, val |-> EINVAL, status |-> NoCode]
    ELSE LET children == current(s).children
         IN  IF \E i \in 1..Len(children) : WaitpidMatches(s, pid, children[i])
             THEN LET i == CHOOSE k \in 1..Len(children) :
                              /\ WaitpidMatches(s, pid, children[k])
                              /\ \A j \in 1..(k - 1) : ~WaitpidMatches(s, pid, children[j])
                      child == get_task(s, children[i])
                  IN  [s |-> s, val |-> children[i],
                       status |-> <<child.exit_code[1] * 256>>]
             ELSE [s |-> s, val |-> EINVAL, status |-> NoCode]

----------------------------------------------------------------------------
(* History variables *)

IsReady(s, pid) == HasTask(s, pid) /\ get_task(s, pid).state = "Ready"

\* the tasks that stay Ready keep their place; the tasks that became Ready
\* are appended in task-table order
NewReadyOrder(order, s2) ==
    LET kept == SelectSeq(order, LAMBDA p : IsReady(s2, p))
        new == SelectSeq(s2.tasks,
                  LAMBDA t : t.state = "Ready" /\ t.pid \notin Range(order)
                             /\ TaskIndex(s2.tasks, t.pid) # 0)
    IN  kept \o [i \in 1..Len(new) |-> new[i].pid]

\* a wait call made by caller returned pid c of a task whose parent is caller
ParentReturn(s, r) ==
    /\ r.val > 0
    /\ HasCurrent(s)
    /\ HasTask(s, r.val)
    /\ get_task(s, r.val).ppid = s.current_pid

NewWaitReturns(s, r) ==
    IF ParentReturn(s, r)
    THEN [wait_returns EXCEPT ![r.val] = @ + 1]
    ELSE wait_returns

AnyRunning(s) == \E i \in 1..Len(s.tasks) : s.tasks[i].state = "Running"

\* the part of a step every operation shares: s2 is the scheduler it leaves,
\* arr the pid it enqueued as a new arrival
Step(s2, arr) ==
    /\ SCHEDULER' = s2
    /\ ready_order' = NewReadyOrder(ready_order, s2)
    /\ dispatched' = (dispatched \/ AnyRunning(s2))
    /\ arrived' = arr
    /\ UNCHANGED notSched

CanTick(s) == s.ticks < MaxTicks
CanPush(s) == ready_count(s) < MaxQueue
CanAllocate(s) == s.next_pid <= MaxPid

----------------------------------------------------------------------------
(* Actions *)

SchedInit ==
    /\ SCHEDULER = Scheduler_new
    /\ wait_returns = [p \in Pids |-> 0]
    /\ ready_order = <<>>
    /\ dispatched = FALSE
    /\ arrived = NoPid

\* Task::new, lines 147-148: signal_mask: 0, pending_signals: 0
SigInit ==
    /\ signal_mask = {}
    /\ pending_signals = {}

\* hal::init has enabled interrupts; no function is entered, no lock is held
IrqInit ==
    /\ thread = [fn |-> "none", step |-> 0]
    /\ held = <<>>
    /\ interrupts_enabled = TRUE
    /\ isr = [fn |-> "none", step |-> 0]
    /\ isr_held = <<>>
    /\ timer_events = <<>>

(***************************************************************************)
(* The virtual file system (fs/vfs/vfs.rs, fs/vfs/node.rs).                *)
(*                                                                         *)
(* A path string is written as the sequence str.split('/') yields:         *)
(* "/a/b" is <<"", "a", "b">>, "/" is <<"", "">>, "a/../b" is              *)
(* <<"a", "..", "b">>; joining two strings with a '/' between them is the   *)
(* concatenation of their sequences.  A u64 link count is written as the   *)
(* two's-complement reading of its bits, so u64::MAX is -1.  An operation  *)
(* yields the VirtualFileSystem it leaves behind and its Result: "Ok" or   *)
(* the FsError, or "panic" where an overflow check of the build fires.     *)
(***************************************************************************)
MaxInode == 5

RootInode == 1
RootPath == <<"", "">>
NoInode == 0
NoEntry == [name |-> "", inode |-> NoInode, file_type |-> "None"]
NoNode ==
    [name |-> "", inode |-> NoInode, mode |-> "None", perm |-> 0, size |-> 0,
     nlink |-> 0, data |-> [kind |-> "None", entries |-> <<>>]]

\* FileMode: `mode` is the file type (mode.0 & S_IFMT), `perm` the other
\* twelve bits (mode.0 & 0o7777)
PERM_MASK == 4095
DIR_MODE == 493

\* mode & 0o7777
Permissions(mode) == mode % (PERM_MASK + 1)

\* BTreeMap::insert, BTreeMap::remove
Insert(nodes, inode, node) ==
    [i \in DOMAIN nodes \cup {inode} |-> IF i = inode THEN node ELSE nodes[i]]

Remove(nodes, inode) == [i \in DOMAIN nodes \ {inode} |-> nodes[i]]

DirEntry_new(name, inode, file_type) ==
    [name |-> name, inode |-> inode, file_type |-> file_type]

new_file(name, inode, mode) ==
    [name |-> name, inode |-> inode, mode |-> "S_IFREG",
     perm |-> Permissions(mode), size |-> 0, nlink |-> 1,
     data |-> [kind |-> "Regular", entries |-> <<>>]]

new_directory(name, inode, mode) ==
    [name |-> name, inode |-> inode, mode |-> "S_IFDIR",
     perm |-> Permissions(mode), size |-> 0, nlink |-> 2,
     data |-> [kind |-> "Directory",
               entries |-> <<DirEntry_new(".", inode, "Directory")>>]]

\* target_len: the length of the link's target string
new_symlink(name, inode, target_len) ==
    [name |-> name, inode |-> inode, mode |-> "S_IFLNK",
     perm |-> Permissions(511), size |-> target_len, nlink |-> 1,
     data |-> [kind |-> "Symlink", entries |-> <<>>]]

new_char_device(name, inode, mode) ==
    [name |-> name, inode |-> inode, mode |-> "S_IFCHR",
     perm |-> Permissions(mode), size |-> 0, nlink |-> 1,
     data |-> [kind |-> "Device", entries |-> <<>>]]

is_dir(node) == node.mode = "S_IFDIR"

\* the position of the first entry called name, 0 if there is none
EntryPosition(entries, name) ==
    IF \E i \in DOMAIN entries : entries[i].name = name
    THEN CHOOSE i \in DOMAIN entries :
             /\ entries[i].name = name
             /\ \A j \in 1..(i - 1) : entries[j].name # name
    ELSE 0

add_entry(node, entry) ==
    IF node.data.kind # "Directory"
    THEN [node |-> node, err |-> "NotDirectory"]
    ELSE IF \E i \in DOMAIN node.data.entries :
                node.data.entries[i].name = entry.name
    THEN [node |-> node, err |-> "AlreadyExists"]
    ELSE [node |-> [node EXCEPT !.data.entries = Append(@, entry)],
          err |-> "Ok"]

remove_entry(node, name) ==
    IF node.data.kind # "Directory"
    THEN [node |-> node, err |-> "NotDirectory"]
    ELSE LET entries == node.data.entries
             pos == EntryPosition(entries, name)
         IN  IF pos = 0
             THEN [node |-> node, err |-> "NotFound"]
             ELSE [node |-> [node EXCEPT !.data.entries =
                                 SubSeq(entries, 1, pos - 1)
                                     \o SubSeq(entries, pos + 1, Len(entries))],
                   err |-> "Ok"]

lookup(node, name) ==
    IF node.data.kind # "Directory"
    THEN [entry |-> NoEntry, err |-> "NotDirectory"]
    ELSE LET pos == EntryPosition(node.data.entries, name)
         IN  IF pos = 0
             THEN [entry |-> NoEntry, err |-> "NotFound"]
             ELSE [entry |-> node.data.entries[pos], err |-> "Ok"]

VirtualFileSystem_new ==
    [nodes |-> Insert(<<>>, RootInode, new_directory("/", RootInode, DIR_MODE)),
     next_inode |-> 2,
     cwd |-> RootPath]

alloc_inode(vfs) ==
    [vfs |-> [vfs EXCEPT !.next_inode = @ + 1], inode |-> vfs.next_inode]

\* the loop of normalize_path over the components of the path
RECURSIVE normalize_components(_, _)
normalize_components(path, components) ==
    IF path = <<>>
    THEN components
    ELSE LET component == Head(path)
         IN  normalize_components(Tail(path),
                 IF component \in {"", "."}
                 THEN components
                 ELSE IF component = ".."
                 THEN SubSeq(components, 1, Len(components) - 1)
                 ELSE Append(components, component))

normalize_path(path) ==
    LET components == normalize_components(path, <<>>)
    IN  IF components = <<>> THEN RootPath ELSE <<"">> \o components

starts_with_slash(path) == Len(path) >= 2 /\ path[1] = ""

\* resolve_path that prefixes the cwd to absolute paths as well
resolve_path_from_cwd(vfs, path) == normalize_path(vfs.cwd \o path)

resolve_path(vfs, path) ==
    IF starts_with_slash(path)
    THEN normalize_path(path)
    ELSE normalize_path(vfs.cwd \o path)

\* nodes.get(&inode).ok_or(FsError::NotFound)
get_node(vfs, inode) ==
    IF inode \in DOMAIN vfs.nodes
    THEN [node |-> vfs.nodes[inode], err |-> "Ok"]
    ELSE [node |-> NoNode, err |-> "NotFound"]

\* the loop of lookup_path over the components of the resolved path
RECURSIVE lookup_components(_, _, _)
lookup_components(vfs, components, current_inode) ==
    IF components = <<>>
    THEN get_node(vfs, current_inode)
    ELSE LET current_node == get_node(vfs, current_inode)
         IN  IF current_node.err # "Ok"
             THEN current_node
             ELSE IF ~is_dir(current_node.node)
             THEN [node |-> NoNode, err |-> "NotDirectory"]
             ELSE LET found == lookup(current_node.node, Head(components))
                  IN  IF found.err # "Ok"
                      THEN [node |-> NoNode, err |-> found.err]
                      ELSE lookup_components(vfs, Tail(components),
                                             found.entry.inode)

lookup_path(vfs, path) ==
    LET resolved == resolve_path(vfs, path)
    IN  IF resolved = RootPath
        THEN get_node(vfs, RootInode)
        ELSE lookup_components(vfs,
                 SelectSeq(resolved, LAMBDA s : s # ""), RootInode)

\* a resolved path other than "/" starts with '/' and does not end with one:
\* its last '/' stands before its last component
get_parent_and_name(vfs, path) ==
    LET resolved == resolve_path(vfs, path)
        pos == Len(resolved) - 1
    IN  IF resolved = RootPath
        THEN [parent |-> <<>>, name |-> "", err |-> "InvalidArgument"]
        ELSE [parent |-> IF pos = 1 THEN RootPath ELSE SubSeq(resolved, 1, pos),
              name |-> resolved[Len(resolved)],
              err |-> "Ok"]

\* the node a create_* call builds for the file type it creates
\* (mode.0 & 0o7777 of the caller's mode; the target's length for a symlink)
new_node(file_type, name, inode, parent_inode, mode) ==
    CASE file_type = "Regular" -> new_file(name, inode, Permissions(mode))
      [] file_type = "Symlink" -> new_symlink(name, inode, mode)
      [] file_type = "CharDevice" ->
            new_char_device(name, inode, Permissions(mode))
      [] file_type = "Directory" ->
            [new_directory(name, inode, Permissions(mode)) EXCEPT !.data.entries =
                 Append(@, DirEntry_new("..", parent_inode, "Directory"))]

\* create_file, create_device, create_directory and create_symlink, which
\* differ in the node they build and in the parent's link count only
create(vfs, path, file_type, mode) ==
    LET pn == get_parent_and_name(vfs, path)
        parent == lookup_path(vfs, pn.parent)
        parent_inode == parent.node.inode
        alloc == alloc_inode(vfs)
        inode == alloc.inode
        node == new_node(file_type, pn.name, inode, parent_inode, mode)
        inserted == [alloc.vfs EXCEPT !.nodes = Insert(@, inode, node)]
        parent_mut == get_node(inserted, parent_inode)
        added == add_entry(parent_mut.node,
                           DirEntry_new(pn.name, inode, file_type))
    IN  IF pn.err # "Ok" THEN [vfs |-> vfs, err |-> pn.err, node |-> NoNode]
        ELSE IF parent.err # "Ok"
        THEN [vfs |-> vfs, err |-> parent.err, node |-> NoNode]
        ELSE IF ~is_dir(parent.node)
        THEN [vfs |-> vfs, err |-> "NotDirectory", node |-> NoNode]
        ELSE IF parent_mut.err # "Ok"
        THEN [vfs |-> inserted, err |-> parent_mut.err, node |-> NoNode]
        ELSE IF added.err # "Ok"
        THEN [vfs |-> inserted, err |-> added.err, node |-> NoNode]
        ELSE [vfs |-> [inserted EXCEPT !.nodes[parent_inode] =
                          IF file_type = "Directory"
                          THEN [added.node EXCEPT !.nlink = @ + 1]
                          ELSE added.node],
              err |-> "Ok",
              node |-> node]

create_file(vfs, path, mode) == create(vfs, path, "Regular", mode)

create_device(vfs, path, mode) == create(vfs, path, "CharDevice", mode)

create_directory(vfs, path, mode) == create(vfs, path, "Directory", mode)

create_symlink(vfs, path, target_len) ==
    create(vfs, path, "Symlink", target_len)

remove_file(vfs, path) ==
    LET pn == get_parent_and_name(vfs, path)
        parent == lookup_path(vfs, pn.parent)
        found == lookup(parent.node, pn.name)
        parent_inode == parent.node.inode
        file_inode == found.entry.inode
        parent_mut == get_node(vfs, parent_inode)
        removed == remove_entry(parent_mut.node, pn.name)
    IN  IF pn.err # "Ok" THEN [vfs |-> vfs, err |-> pn.err]
        ELSE IF parent.err # "Ok" THEN [vfs |-> vfs, err |-> parent.err]
        ELSE IF found.err # "Ok" THEN [vfs |-> vfs, err |-> found.err]
        ELSE IF found.entry.file_type = "Directory"
        THEN [vfs |-> vfs, err |-> "IsDirectory"]
        ELSE IF parent_mut.err # "Ok" THEN [vfs |-> vfs, err |-> parent_mut.err]
        ELSE IF removed.err # "Ok" THEN [vfs |-> vfs, err |-> removed.err]
        ELSE [vfs |-> [vfs EXCEPT !.nodes =
                          Remove([@ EXCEPT ![parent_inode] = removed.node],
                                 file_inode)],
              err |-> "Ok"]

\* entries.iter().any(|e| e.name != "." && e.name != "..")
HasOtherEntries(node) ==
    /\ node.data.kind = "Directory"
    /\ \E i \in DOMAIN node.data.entries :
           node.data.entries[i].name \notin {".", ".."}

\* `parent.nlink -= 1` on a link count of 0 panics in a build with overflow
\* checks and wraps to u64::MAX in a build without them
remove_directory(vfs, path, overflow_checks) ==
    LET pn == get_parent_and_name(vfs, path)
        dir == lookup_path(vfs, path)
        parent == lookup_path(vfs, pn.parent)
        parent_inode == parent.node.inode
        dir_inode == dir.node.inode
        parent_mut == get_node(vfs, parent_inode)
        removed == remove_entry(parent_mut.node, pn.name)
        unlinked == [vfs EXCEPT !.nodes[parent_inode] = removed.node]
    IN  IF pn.err # "Ok" THEN [vfs |-> vfs, err |-> pn.err]
        ELSE IF dir.err # "Ok" THEN [vfs |-> vfs, err |-> dir.err]
        ELSE IF ~is_dir(dir.node) THEN [vfs |-> vfs, err |-> "NotDirectory"]
        ELSE IF HasOtherEntries(dir.node) THEN [vfs |-> vfs, err |-> "NotEmpty"]
        ELSE IF parent.err # "Ok" THEN [vfs |-> vfs, err |-> parent.err]
        ELSE IF parent_mut.err # "Ok" THEN [vfs |-> vfs, err |-> parent_mut.err]
        ELSE IF removed.err # "Ok" THEN [vfs |-> vfs, err |-> removed.err]
        ELSE IF removed.node.nlink = 0 /\ overflow_checks
        THEN [vfs |-> unlinked, err |-> "panic"]
        ELSE [vfs |-> [unlinked EXCEPT !.nodes =
                          Remove([@ EXCEPT ![parent_inode].nlink = @ - 1],
                                 dir_inode)],
              err |-> "Ok"]

rename(vfs, old_path, new_path) ==
    LET old_pn == get_parent_and_name(vfs, old_path)
        new_pn == get_parent_and_name(vfs, new_path)
        old_parent == lookup_path(vfs, old_pn.parent)
        found == lookup(old_parent.node, old_pn.name)
        old_parent_inode == old_parent.node.inode
        entry_inode == found.entry.inode
        file_type == found.entry.file_type
        new_parent == lookup_path(vfs, new_pn.parent)
        new_parent_inode == new_parent.node.inode
        old_parent_mut == get_node(vfs, old_parent_inode)
        removed == remove_entry(old_parent_mut.node, old_pn.name)
        unlinked == [vfs EXCEPT !.nodes[old_parent_inode] = removed.node]
        node == get_node(unlinked, entry_inode)
        renamed == [unlinked EXCEPT !.nodes[entry_inode].name = new_pn.name]
        new_parent_mut == get_node(renamed, new_parent_inode)
        added == add_entry(new_parent_mut.node,
                           DirEntry_new(new_pn.name, entry_inode, file_type))
    IN  IF old_pn.err # "Ok" THEN [vfs |-> vfs, err |-> old_pn.err]
        ELSE IF new_pn.err # "Ok" THEN [vfs |-> vfs, err |-> new_pn.err]
        ELSE IF old_parent.err # "Ok" THEN [vfs |-> vfs, err |-> old_parent.err]
        ELSE IF found.err # "Ok" THEN [vfs |-> vfs, err |-> found.err]
        ELSE IF new_parent.err # "Ok" THEN [vfs |-> vfs, err |-> new_parent.err]
        ELSE IF old_parent_mut.err # "Ok"
        THEN [vfs |-> vfs, err |-> old_parent_mut.err]
        ELSE IF removed.err # "Ok" THEN [vfs |-> vfs, err |-> removed.err]
        ELSE IF node.err # "Ok" THEN [vfs |-> unlinked, err |-> node.err]
        ELSE IF new_parent_mut.err # "Ok"
        THEN [vfs |-> renamed, err |-> new_parent_mut.err]
        ELSE IF added.err # "Ok" THEN [vfs |-> renamed, err |-> added.err]
        ELSE [vfs |-> [renamed EXCEPT !.nodes[new_parent_inode] = added.node],
              err |-> "Ok"]

(***************************************************************************)
(* The file API over the VFS (fs/vfs/api.rs).  OpenFlags is written as the *)
(* set of the names of the flags that are set.                             *)
(***************************************************************************)
NoFd == [path |-> <<>>, inode |-> NoInode, flags |-> {}, offset |-> 0,
         mode |-> "None"]

FileDescriptor_new(path, inode, flags, mode) ==
    [path |-> path, inode |-> inode, flags |-> flags, offset |-> 0,
     mode |-> mode]

\* the end of open, once the node is known: vfs is what the calls before
\* left behind
open_node(vfs, path, flags, node) ==
    IF "O_DIRECTORY" \in flags /\ ~is_dir(node)
    THEN [vfs |-> vfs, err |-> "NotDirectory", fd |-> NoFd]
    ELSE [vfs |-> vfs, err |-> "Ok",
          fd |-> FileDescriptor_new(path, node.inode, flags, node.mode)]

\* open without the lookup before create_file
open_without_lookup(vfs, path, flags, mode) ==
    LET created == create_file(vfs, path, mode)
    IN  IF "O_CREAT" \in flags
        THEN IF created.err # "Ok"
             THEN [vfs |-> created.vfs, err |-> created.err, fd |-> NoFd]
             ELSE open_node(created.vfs, path, flags, created.node)
        ELSE [vfs |-> vfs, err |-> lookup_path(vfs, path).err, fd |-> NoFd]

open(vfs, path, flags, mode) ==
    LET lookup_result == lookup_path(vfs, path)
        created == create_file(vfs, path, mode)
    IN  IF lookup_result.err = "Ok"
        THEN IF {"O_EXCL", "O_CREAT"} \subseteq flags
             THEN [vfs |-> vfs, err |-> "AlreadyExists", fd |-> NoFd]
             ELSE open_node(vfs, path, flags, lookup_result.node)
        ELSE IF lookup_result.err = "NotFound" /\ "O_CREAT" \in flags
        THEN IF created.err # "Ok"
             THEN [vfs |-> created.vfs, err |-> created.err, fd |-> NoFd]
             ELSE open_node(created.vfs, path, flags, created.node)
        ELSE [vfs |-> vfs, err |-> lookup_result.err, fd |-> NoFd]

\* VfsNode::stat: the fields of FileStat taken from the node
VfsNode_stat(node) ==
    [ino |-> node.inode, mode |-> node.mode, perm |-> node.perm,
     nlink |-> node.nlink, size |-> node.size]

stat(vfs, path) ==
    LET found == lookup_path(vfs, path)
    IN  IF found.err # "Ok"
        THEN [err |-> found.err, stat |-> VfsNode_stat(NoNode)]
        ELSE [err |-> "Ok", stat |-> VfsNode_stat(found.node)]

\* VirtualFileSystem::new: the root directory alone, with inode 1
VfsInit ==
    /\ VFS = VirtualFileSystem_new
    /\ vfs_panicked = FALSE

\* no file has been opened
\* the tasks that call api::open
OpenTasks == {1, 2}

NoCall ==
    [pc |-> "idle", path |-> <<>>, flags |-> {}, mode |-> 0,
     lookup_result |-> [err |-> "Ok", node |-> NoNode],
     err |-> "Ok", fd |-> NoFd]

\* no file has been opened and no task is inside api::open
ApiInit ==
    /\ open_files = <<>>
    /\ open_calls = [t \in OpenTasks |-> NoCall]

\* MOUNT_TABLE is Vec::new(); mount::init mounts nothing
MountInit ==
    /\ MOUNT_TABLE = <<>>
    /\ mount_last = [op |-> "none", target |-> <<>>, err |-> "Ok"]

-----------------------------------------------------------------------------
(* The security framework (qsf/qsf.rs) and the task fields the file         *)
(* syscalls use (kernel/scheduler/task.rs).  A path is written as in the   *)
(* VFS, "/a" as <<"", "a">>; a string the security framework compares is    *)
(* the sequence of its symbols, "/a" as <<"/", "a">>.                        *)

\* QunixSecurityFramework::new; user_capabilities: the uids that hold
\* CapDacOverride; process_confinements: per confined pid, its path lists
QunixSecurityFramework_new ==
    [level |-> "Permissive",
     user_capabilities |-> {},
     process_confinements |-> <<>>,
     audit_log |-> <<>>]

\* init_qsf: set_level(Permissive); grant_capability(0, CapDacOverride)
init_qsf(qsf) ==
    [qsf EXCEPT !.level = "Permissive",
                !.user_capabilities = qsf.user_capabilities \cup {0}]

\* the fields of Task::new(1, "init", entry, true) that the file syscalls use
Task_new_files ==
    [pid |-> 1, uid |-> 0, name |-> <<"init">>,
     cwd |-> <<"", "">>, fds |-> <<>>, next_fd |-> 3]

\* kernel::init has run qsf::init; init is the current task
SysInit ==
    /\ QSF = init_qsf(QunixSecurityFramework_new)
    /\ sys_task = Task_new_files

-----------------------------------------------------------------------------
(* Physical frame allocators (hal/memory/frame_allocator.rs).  A frame is   *)
(* its number, the start address divided by 4096; an Option is a sequence   *)
(* of length 0 or 1.                                                        *)

MaxNext == 4       \* a bump allocator is followed up to next = MaxNext
TotalFrames == 4   \* total_frames of the bitmap allocator

PAGE_SIZE == 4096
NoFrame == 0 - 1   \* allocate_frame returned None
NoIndex == 0 - 1   \* find_free_frame returned None

MemoryRegion(start_addr, end_addr, region_type) ==
    [start_addr |-> start_addr, end_addr |-> end_addr,
     region_type |-> region_type]

\* PhysFrame::containing_address
containing_address(addr) == addr \div PAGE_SIZE

\* (start_addr..end_addr).step_by(4096), each address as its frame
RECURSIVE range_frames(_, _)
range_frames(addr, end_addr) ==
    IF addr >= end_addr
    THEN <<>>
    ELSE <<containing_address(addr)>>
             \o range_frames(addr + PAGE_SIZE, end_addr)

RECURSIVE usable_frames(_)
usable_frames(map) ==
    IF map = <<>>
    THEN <<>>
    ELSE (IF Head(map).region_type = "Usable"
          THEN range_frames(Head(map).start_addr, Head(map).end_addr)
          ELSE <<>>)
             \o usable_frames(Tail(map))

BootInfoFrameAllocator_init == [next |-> 0]

\* usable_frames().nth(self.next); self.next += 1
BootInfoFrameAllocator_allocate_frame(self, map) ==
    [self |-> [self EXCEPT !.next = self.next + 1],
     frame |-> IF self.next < Len(usable_frames(map))
               THEN usable_frames(map)[self.next + 1]
               ELSE NoFrame]

\* the bitmap is the set of the frame indices whose bit is set
BitmapFrameAllocator_new(start_addr, total_frames) ==
    [bitmap |-> {},
     base_frame |-> start_addr \div PAGE_SIZE,
     total_frames |-> total_frames,
     next_free |-> 0]

\* for a frame at or above base_frame
mark_used(self, frame) ==
    LET frame_number == frame - self.base_frame
    IN  IF frame_number < self.total_frames
        THEN [self EXCEPT !.bitmap = self.bitmap \cup {frame_number}]
        ELSE self

\* for a frame at or above base_frame
mark_free(self, frame) ==
    LET frame_number == frame - self.base_frame
    IN  IF frame_number < self.total_frames
        THEN [self EXCEPT !.bitmap = self.bitmap \ {frame_number},
                          !.next_free = IF frame_number < self.next_free
                                        THEN frame_number
                                        ELSE self.next_free]
        ELSE self

free_frames(self) == self.total_frames - Cardinality(self.bitmap)

find_free_frame(self) ==
    LET upper == {i \in self.next_free..(self.total_frames - 1) :
                     i \notin self.bitmap}
        lower == {i \in 0..(self.next_free - 1) : i \notin self.bitmap}
    IN  IF upper # {}
        THEN CHOOSE i \in upper : \A j \in upper : i <= j
        ELSE IF lower # {}
             THEN CHOOSE i \in lower : \A j \in lower : i <= j
             ELSE NoIndex

BitmapFrameAllocator_allocate_frame(self) ==
    LET frame_idx == find_free_frame(self)
        addr == self.base_frame + frame_idx * PAGE_SIZE
    IN  IF frame_idx # NoIndex
        THEN [self |-> [self EXCEPT !.bitmap = self.bitmap \cup {frame_idx},
                                    !.next_free = frame_idx + 1],
              frame |-> containing_address(addr * PAGE_SIZE)]
        ELSE [self |-> self, frame |-> NoFrame]

deallocate_frame(self, frame) == mark_free(self, frame)

\* before main.rs:34 no memory map is handed over and no allocator exists
FrameInit ==
    /\ memory_map = <<>>
    /\ FRAME_ALLOCATOR = <<>>
    /\ hal_frame_allocator = <<>>
    /\ frames_out = <<>>

ZoneInit ==
    /\ zone = <<>>
    /\ zone_frames = {}

\* the addresses Box::new gives to kernel stacks: init's is the only one
Stacks == {1}

\* no task exists and no stack has been freed
StackInit ==
    /\ stack_table = [tasks |-> <<>>, next_pid |-> 1]
    /\ stack_frees = [s \in Stacks |-> 0]

FatSize == 4         \* entries of the FAT

\* FatTable::new(size): every entry free
FatTable_new(size) == [i \in 1..size |-> 0]

FatInit ==
    /\ fat_table = FatTable_new(FatSize)
    /\ fat_chain = <<>>

\* read_directory before its loop
DirInit ==
    /\ lfn_entries = <<>>
    /\ dir_names = <<>>

Init ==
    /\ SchedInit /\ SigInit /\ IrqInit /\ VfsInit /\ ApiInit /\ MountInit
    /\ SysInit /\ FrameInit /\ ZoneInit /\ StackInit /\ FatInit /\ DirInit

\* kernel/init.rs start_init_process: called once at the end of boot
StartInit ==
    /\ SCHEDULER.tasks = <<>> /\ SCHEDULER.next_pid = 1
    /\ Step(add_task(SCHEDULER, Task_new(1)), 1)
    /\ UNCHANGED wait_returns

Spawn ==
    /\ CanAllocate(SCHEDULER) /\ CanPush(SCHEDULER)
    /\ Step(spawn(SCHEDULER), SCHEDULER.next_pid)
    /\ UNCHANGED wait_returns

\* the timer interrupt (and yield_now): scheduler::schedule()
Tick ==
    /\ CanTick(SCHEDULER)
    /\ Step(schedule(SCHEDULER), NoPid)
    /\ UNCHANGED wait_returns

Fork ==
    /\ CanAllocate(SCHEDULER) /\ CanPush(SCHEDULER)
    /\ Step(sys_fork(SCHEDULER).s,
            IF sys_fork(SCHEDULER).val > 0 THEN sys_fork(SCHEDULER).val ELSE NoPid)
    /\ UNCHANGED wait_returns

Exit(code) ==
    /\ CanTick(SCHEDULER)
    /\ Step(sys_exit(SCHEDULER, code).s, NoPid)
    /\ UNCHANGED wait_returns

Wait4(pid) ==
    LET r == sys_wait4(SCHEDULER, pid)
    IN  /\ ParentReturn(SCHEDULER, r) => wait_returns[r.val] < MaxWaitReturns
        /\ Step(r.s, NoPid)
        /\ wait_returns' = NewWaitReturns(SCHEDULER, r)

Waitpid(pid) ==
    LET r == posix_waitpid(SCHEDULER, pid)
    IN  /\ ParentReturn(SCHEDULER, r) => wait_returns[r.val] < MaxWaitReturns
        /\ Step(r.s, NoPid)
        /\ wait_returns' = NewWaitReturns(SCHEDULER, r)

BlockCurrent ==
    /\ CanTick(SCHEDULER)
    /\ Step(block_current(SCHEDULER), NoPid)
    /\ UNCHANGED wait_returns

Unblock(pid) ==
    /\ CanPush(SCHEDULER)
    /\ Step(unblock(SCHEDULER, pid),
            IF unblock(SCHEDULER, pid) # SCHEDULER THEN pid ELSE NoPid)
    /\ UNCHANGED wait_returns

Sleep ==
    /\ CanTick(SCHEDULER)
    /\ Step(sleep(SCHEDULER), NoPid)
    /\ UNCHANGED wait_returns

SetPriority(pid, priority) ==
    /\ Step(set_priority(SCHEDULER, pid, priority), NoPid)
    /\ UNCHANGED wait_returns

RunFirstTask(pid) ==
    /\ HasTask(SCHEDULER, pid)
    /\ Step(run_first_task(SCHEDULER, pid), NoPid)
    /\ UNCHANGED wait_returns

RemoveZombie(pid) ==
    /\ Step(remove_zombie(SCHEDULER, pid), NoPid)
    /\ UNCHANGED wait_returns

Next ==
    \/ StartInit
    \/ Spawn
    \/ Tick
    \/ Fork
    \/ \E code \in ExitCodes : Exit(code)
    \/ \E pid \in Wait4Inputs : Wait4(pid)
    \/ \E pid \in Wait4Inputs : Waitpid(pid)
    \/ BlockCurrent
    \/ \E pid \in Pids : Unblock(pid)
    \/ Sleep
    \/ \E pid \in Pids, priority \in SetPriorityInputs : SetPriority(pid, priority)
    \/ \E pid \in Pids : RunFirstTask(pid)
    \/ \E pid \in Pids : RemoveZombie(pid)

Spec == Init /\ [][Next]_vars

----------------------------------------------------------------------------
(* Vocabulary of the claims *)

TaskPids(s) == {s.tasks[i].pid : i \in 1..Len(s.tasks)}

CountState(s, states) ==
    Cardinality({i \in 1..Len(s.tasks) : s.tasks[i].state \in states})

\* how often pid occurs in the five ready queues
Occurrences(s, pid) ==
    Cardinality({<<p, i>> \in Priorities \X (1..MaxQueue + 1) :
                    i <= Len(s.ready_queue[p]) /\ s.ready_queue[p][i] = pid})

Queued(s) == UNION {Range(s.ready_queue[p]) : p \in Priorities}

\* the next schedule() call on s gets past the time-slice test
AtBoundary(s) == s.preemption_enabled /\ (s.ticks + 1) % s.time_slice = 0

----------------------------------------------------------------------------
(* C1: once a task has been dispatched, exactly one task of the table is   *)
(* Running: never two, and never none while a task is Ready or Running.    *)
C1_ExactlyOneRunning ==
    /\ CountState(SCHEDULER, {"Running"}) <= 1
    /\ (dispatched /\ CountState(SCHEDULER, {"Ready", "Running"}) > 0)
          => CountState(SCHEDULER, {"Running"}) = 1

(* C2: queue entries + Running tasks + Blocked/Sleeping/Zombie/Stopped     *)
(* tasks = tasks of the table; each Ready task is queued exactly once and  *)
(* nothing else is queued.                                                 *)
C2_QueueAccounting ==
    /\ ready_count(SCHEDULER) + CountState(SCHEDULER, {"Running"})
          + CountState(SCHEDULER, {"Blocked", "Sleeping", "Zombie", "Stopped"})
       = Len(SCHEDULER.tasks)
    /\ \A pid \in Pids :
          Occurrences(SCHEDULER, pid) = IF IsReady(SCHEDULER, pid) THEN 1 ELSE 0

ReadyPids(s) == {pid \in TaskPids(s) : IsReady(s, pid)}

\* position of pid in the sequence order (pid occurs in it)
Position(order, pid) == CHOOSE i \in 1..Len(order) : order[i] = pid

\* s1 is handed to schedule() with the Ready tasks in the order `order`:
\* if the call reaches select_next while a task is Ready, the pid it pops is
\* a Ready task, no Ready task has a higher priority, and no Ready task of
\* the same priority has been Ready longer
SelectsOldestOfHighest(s1, order) ==
    LET s2 == requeue_current([s1 EXCEPT !.ticks = @ + 1])
        order2 == NewReadyOrder(order, s2)
        pid == select_next(s2).pid
    IN  (AtBoundary(s1) /\ ReadyPids(s2) # {}) =>
            /\ pid \in ReadyPids(s2)
            /\ \A other \in ReadyPids(s2) :
                  /\ get_task(s2, other).priority <= get_task(s2, pid).priority
                  /\ get_task(s2, other).priority = get_task(s2, pid).priority
                        => Position(order2, pid) <= Position(order2, other)

(* C3: whenever the scheduler selects the next task it picks the task that *)
(* has been Ready longest among the Ready tasks of the highest priority    *)
(* that has a Ready task, also after set_priority changed a priority.      *)
C3_PriorityThenFifo ==
    [][/\ Tick => SelectsOldestOfHighest(SCHEDULER, ready_order)
       /\ BlockCurrent =>
             SelectsOldestOfHighest(block_current_mark(SCHEDULER),
                 NewReadyOrder(ready_order, block_current_mark(SCHEDULER)))
       /\ Sleep =>
             SelectsOldestOfHighest(sleep_mark(SCHEDULER),
                 NewReadyOrder(ready_order, sleep_mark(SCHEDULER)))
       /\ \A code \in ExitCodes :
             Exit(code) =>
                SelectsOldestOfHighest(exit_mark(SCHEDULER, code),
                    NewReadyOrder(ready_order, exit_mark(SCHEDULER, code)))
      ]_vars

IsZombieOrStopped(s, pid) ==
    HasTask(s, pid) /\ get_task(s, pid).state \in {"Zombie", "Stopped"}

(* C4: a task that is Zombie or Stopped is not put in a ready queue nor     *)
(* made Running by a later tick, and a Zombie's exit_code does not change   *)
(* while it is in the task table.                                           *)
C4_ZombieIsTerminal ==
    [][\A pid \in Pids :
          (IsZombieOrStopped(SCHEDULER, pid) /\ HasTask(SCHEDULER', pid)) =>
              /\ get_task(SCHEDULER', pid).exit_code = get_task(SCHEDULER, pid).exit_code
              /\ Tick => /\ get_task(SCHEDULER', pid).state = get_task(SCHEDULER, pid).state
                         /\ Occurrences(SCHEDULER', pid) <= Occurrences(SCHEDULER, pid)
      ]_vars

(* C5: a wait4 call made by a task that is not the parent of a Zombie does  *)
(* not remove that Zombie, and returns -ECHILD when the Zombie is the task  *)
(* the call asks for.                                                       *)
C5_OnlyParentReaps ==
    [][\A pid \in Wait4Inputs, z \in Pids :
          (/\ Wait4(pid)
           /\ HasCurrent(SCHEDULER)
           /\ HasZombie(SCHEDULER, z)
           /\ get_task(SCHEDULER, z).ppid # SCHEDULER.current_pid) =>
              /\ HasTask(SCHEDULER', z)
              /\ pid = z => sys_wait4(SCHEDULER, pid).val = ECHILD
      ]_vars

(* C6: over the wait calls of its parent (wait4 and waitpid), a child is    *)
(* returned by at most one call: never again after it was returned once.    *)
C6_ReturnedOnce == \A pid \in Pids : wait_returns[pid] <= 1

(* C7: every pid in a task's children is a task of the table whose ppid is  *)
(* that task.                                                               *)
C7_ChildrenExist ==
    \A i \in 1..Len(SCHEDULER.tasks) :
        \A j \in 1..Len(SCHEDULER.tasks[i].children) :
            LET child == SCHEDULER.tasks[i].children[j]
            IN  /\ HasTask(SCHEDULER, child)
                /\ get_task(SCHEDULER, child).ppid = SCHEDULER.tasks[i].pid

\* what a fork that returned child_pid from scheduler s to s2 must have done
ForkedChild(s, s2, child_pid) ==
    LET parent == current(s)
    IN  /\ child_pid > 0
        /\ child_pid \notin TaskPids(s)
        /\ Len(s2.tasks) = Len(s.tasks) + 1
        /\ Cardinality({i \in 1..Len(s2.tasks) : s2.tasks[i].pid = child_pid}) = 1
        /\ get_task(s2, child_pid).ppid = parent.pid
        /\ get_task(s2, child_pid).pgid = child_pid
        /\ get_task(s2, child_pid).children = <<>>
        /\ get_task(s2, child_pid).cpu_time = 0
        /\ child_pid \in Queued(s2)
        /\ s2.current_pid = s.current_pid
        /\ current(s2).pid = parent.pid
        /\ current(s2).state = parent.state
        /\ current(s2).children = Append(parent.children, child_pid)

(* C8: fork by the current task returns a pid no task of the table uses and *)
(* adds a child with ppid = the parent's pid, pgid = the child pid, no      *)
(* children and cpu_time 0; the parent keeps its pid and state and gains    *)
(* exactly that pid at the end of its children.                             *)
C8_ForkCreatesChild ==
    [][(Fork /\ HasCurrent(SCHEDULER)) =>
          ForkedChild(SCHEDULER, SCHEDULER', sys_fork(SCHEDULER).val)]_vars

\* a parent that has run and has children forked once more: its newest child
\* was the last arrival and has none of what the parent accumulated
C8_Witness ==
    /\ HasCurrent(SCHEDULER)
    /\ current(SCHEDULER).cpu_time > 0
    /\ Len(current(SCHEDULER).children) = 2
    /\ arrived = current(SCHEDULER).children[2]
    /\ HasTask(SCHEDULER, arrived)
    /\ get_task(SCHEDULER, arrived).ppid = SCHEDULER.current_pid
    /\ get_task(SCHEDULER, arrived).children = <<>>
    /\ get_task(SCHEDULER, arrived).cpu_time = 0

(* C9: when block_current returns, the task that was running is Blocked and *)
(* is no longer the current task, and if a task was Ready one of the Ready  *)
(* tasks is now Running.                                                    *)
C9_BlockForcesSchedule ==
    [][(/\ BlockCurrent
        /\ HasCurrent(SCHEDULER)
        /\ current(SCHEDULER).state = "Running") =>
          /\ get_task(SCHEDULER', SCHEDULER.current_pid).state = "Blocked"
          /\ SCHEDULER'.current_pid # SCHEDULER.current_pid
          /\ ReadyPids(SCHEDULER) # {} =>
                /\ SCHEDULER'.current_pid \in ReadyPids(SCHEDULER)
                /\ current(SCHEDULER').state = "Running"
      ]_vars

\* the last operation made task `arrived` Ready (add_task, fork or unblock)
\* and its priority is strictly higher than that of the Running current task
HigherPriorityArrival(s) ==
    /\ arrived # NoPid
    /\ IsReady(s, arrived)
    /\ HasCurrent(s)
    /\ current(s).state = "Running"
    /\ get_task(s, arrived).priority > current(s).priority

(* C10: when a task of strictly higher priority than the Running task has   *)
(* become Ready, after the very next scheduler tick that task is Running    *)
(* and the task that was running is Ready.                                  *)
C10_PreemptedAtNextTick ==
    [][(Tick /\ HigherPriorityArrival(SCHEDULER)) =>
          /\ get_task(SCHEDULER', arrived).state = "Running"
          /\ SCHEDULER'.current_pid = arrived
          /\ get_task(SCHEDULER', SCHEDULER.current_pid).state = "Ready"
      ]_vars

----------------------------------------------------------------------------
(* Signals (kernel/scheduler/task.rs, kernel/sys/posix/signals.rs).         *)
(* A u64 mask is the set of its set bit positions, 0..63.                   *)

SIGKILL == 9
SIGSTOP == 19
NSIG == 64
MASK_BITS == 64      \* `signal < 64`: the width of signal_mask / pending_signals

SIG_BLOCK == 0
SIG_UNBLOCK == 1
SIG_SETMASK == 2

NoSet == <<>>        \* Option<&SigSet>::None; Some(bits) is <<bits>>

SigSet_new == {}

SigSet_full == 0..(MASK_BITS - 1)

\* SigSet::add: bit sig - 1
SigSet_add(bits, sig) ==
    IF sig > 0 /\ sig <= NSIG THEN bits \cup {sig - 1} ELSE bits

\* Task::send_signal: bit `signal`
send_signal(pending, signal) ==
    IF signal < MASK_BITS THEN pending \cup {signal} ELSE pending

has_pending_signal(pending, mask, signal) ==
    IF signal < MASK_BITS
    THEN signal \in pending /\ signal \notin mask
    ELSE FALSE

clear_signal(pending, signal) ==
    IF signal < MASK_BITS THEN pending \ {signal} ELSE pending

block_signal(mask, signal) ==
    IF signal < MASK_BITS THEN mask \cup {signal} ELSE mask

unblock_signal(mask, signal) ==
    IF signal < MASK_BITS THEN mask \ {signal} ELSE mask

\* posix_sigprocmask with a current task: [mask |-> the signal_mask it
\* leaves, ok |-> Ok(()) was returned]
posix_sigprocmask(mask, how, set) ==
    IF set = NoSet
    THEN [mask |-> mask, ok |-> TRUE]
    ELSE IF how \notin {SIG_BLOCK, SIG_UNBLOCK, SIG_SETMASK}
         THEN [mask |-> mask, ok |-> FALSE]
         ELSE LET m == CASE how = SIG_BLOCK -> mask \cup set[1]
                         [] how = SIG_UNBLOCK -> mask \ set[1]
                         [] how = SIG_SETMASK -> set[1]
              IN  [mask |-> m \ {SIGKILL - 1, SIGSTOP - 1}, ok |-> TRUE]

\* signal numbers passed to kill, block_signal, ... and put in a SigSet
SignalInputs == {SIGKILL, SIGKILL + 1, SIGSTOP, SIGSTOP + 1}
HowInputs == {SIG_BLOCK, SIG_UNBLOCK, SIG_SETMASK, SIG_SETMASK + 1}
SetInputs ==
    {NoSet, <<SigSet_new>>, <<SigSet_full>>}
        \cup {<<SigSet_add(SigSet_new, sig)>> : sig \in SignalInputs}

\* scheduler::kill -> Task::send_signal on the task
Kill(sig) ==
    /\ pending_signals' = send_signal(pending_signals, sig)
    /\ UNCHANGED <<signal_mask, notSig>>

ClearSignal(sig) ==
    /\ pending_signals' = clear_signal(pending_signals, sig)
    /\ UNCHANGED <<signal_mask, notSig>>

BlockSignal(sig) ==
    /\ signal_mask' = block_signal(signal_mask, sig)
    /\ UNCHANGED <<pending_signals, notSig>>

UnblockSignal(sig) ==
    /\ signal_mask' = unblock_signal(signal_mask, sig)
    /\ UNCHANGED <<pending_signals, notSig>>

SigProcMask(how, set) ==
    /\ signal_mask' = posix_sigprocmask(signal_mask, how, set).mask
    /\ UNCHANGED <<pending_signals, notSig>>

SigNext ==
    \/ \E sig \in SignalInputs : Kill(sig)
    \/ \E sig \in SignalInputs : ClearSignal(sig)
    \/ \E sig \in SignalInputs : BlockSignal(sig)
    \/ \E sig \in SignalInputs : UnblockSignal(sig)
    \/ \E how \in HowInputs, set \in SetInputs : SigProcMask(how, set)

SigSpec == Init /\ [][SigNext]_vars

(* C11: SIGKILL and SIGSTOP are never masked: when one of them is pending   *)
(* for the task, has_pending_signal reports it, whatever block_signal and   *)
(* sigprocmask calls were made.                                             *)
C11_KillStopNeverMasked ==
    \A sig \in {SIGKILL, SIGSTOP} :
        sig \in pending_signals =>
            has_pending_signal(pending_signals, signal_mask, sig)

----------------------------------------------------------------------------
(* The operations the kernel itself reaches: start_init_process at boot,    *)
(* the timer interrupt, and the fork, exit, wait4 and waitpid syscalls,     *)
(* followed over several time slices.                                       *)

MaxKernelTicks == 40   \* the tick counter is followed up to MaxKernelTicks

CanKernelTick(s) == s.ticks < MaxKernelTicks

KernelTick ==
    /\ CanKernelTick(SCHEDULER)
    /\ Step(schedule(SCHEDULER), NoPid)
    /\ UNCHANGED wait_returns

KernelExit(code) ==
    /\ CanKernelTick(SCHEDULER)
    /\ Step(sys_exit(SCHEDULER, code).s, NoPid)
    /\ UNCHANGED wait_returns

KernelNext ==
    \/ StartInit
    \/ KernelTick
    \/ Fork
    \/ \E code \in ExitCodes : KernelExit(code)
    \/ \E pid \in Wait4Inputs : Wait4(pid)
    \/ \E pid \in Wait4Inputs : Waitpid(pid)

KernelSpec == Init /\ [][KernelNext]_vars

----------------------------------------------------------------------------
\* the Zombie tasks among the children of the current task of s
ZombieChildren(s) ==
    {c \in Range(current(s).children) :
        HasTask(s, c) /\ get_task(s, c).state = "Zombie"}

\* those that a wait4 call with argument pid asks for
MatchingZombies(s, pid) ==
    {c \in ZombieChildren(s) : pid = 0 - 1 \/ pid = c}

(* C12: in every reachable state, a wait4 call by the current task with a   *)
(* Zombie child matching pid (any child for -1) returns the pid and exit    *)
(* code of such a child and removes it from the table; wait4 returns        *)
(* -ECHILD only when no Zombie child matches.                               *)
C12_Wait4ReturnsZombieChild ==
    \A pid \in {0 - 1} \cup Pids :
        HasCurrent(SCHEDULER) =>
            LET r == sys_wait4(SCHEDULER, pid)
                matching == MatchingZombies(SCHEDULER, pid)
            IN  /\ matching # {} =>
                      /\ r.val \in matching
                      /\ r.status = get_task(SCHEDULER, r.val).exit_code
                      /\ ~HasTask(r.s, r.val)
                /\ r.val = ECHILD => matching = {}

----------------------------------------------------------------------------
(* Spin locks and interrupts on the single CPU (hal/cpu/interrupts.rs,      *)
(* hal/drivers/pit.rs, hal/drivers/keyboard.rs, kernel/init.rs,             *)
(* kernel/scheduler/scheduler.rs, kernel/sys/syscalls.rs, fs/vfs/api.rs).   *)
(* A function is the sequence of its lock operations, interrupt-flag        *)
(* changes and, for a handler, the things it does between them.             *)

Lock(l) == [op |-> "lock", lock |-> l]
Unlock(l) == [op |-> "unlock", lock |-> l]
Do(o) == [op |-> o, lock |-> "none"]

NoFn == [fn |-> "none", step |-> 0]

\* pit::get_ticks: *TICKS.lock()
get_ticks_path == <<Lock("TICKS"), Unlock("TICKS")>>

\* keyboard::read_char (the body of read_char_blocking's loop): KEY_BUFFER.lock().pop()
read_char_path == <<Lock("KEY_BUFFER"), Unlock("KEY_BUFFER")>>

\* scheduler::spawn: SCHEDULER.lock(), Task::new (start_time: get_ticks()), add_task
spawn_path == <<Lock("SCHEDULER")>> \o get_ticks_path \o <<Unlock("SCHEDULER")>>

\* start_init_process: Task::new, interrupts::disable(), the locked block,
\* interrupts::enable()
start_init_process_path ==
    get_ticks_path
        \o <<Do("cli"), Lock("SCHEDULER"), Unlock("SCHEDULER"), Do("sti")>>

\* a syscall is entered through the interrupt gate idt[0x80]
Syscall(body) == <<Do("int")>> \o body \o <<Do("iret")>>

\* sys_read, a valid fd: SCHEDULER.lock() at line 121, VFS.lock() at line 127
sys_read_path ==
    Syscall(<<Lock("SCHEDULER"), Lock("VFS"), Unlock("VFS"), Unlock("SCHEDULER")>>)

\* sys_write, fd > 2: SCHEDULER.lock() at line 166, VFS.lock() at line 173
sys_write_path ==
    Syscall(<<Lock("SCHEDULER"), Lock("VFS"), Unlock("VFS"), Unlock("SCHEDULER")>>)

\* api::open with O_CREAT on a missing file: the lookup block, then create_file
api_open_path == <<Lock("VFS"), Unlock("VFS"), Lock("VFS"), Unlock("VFS")>>

\* sys_open: api::open, then SCHEDULER.lock() at line 219
sys_open_path ==
    Syscall(api_open_path \o <<Lock("SCHEDULER"), Unlock("SCHEDULER")>>)

\* sys_fstat: SCHEDULER.lock() at line 594, api::stat (VFS.lock()) inside
sys_fstat_path ==
    Syscall(<<Lock("SCHEDULER"), Lock("VFS"), Unlock("VFS"), Unlock("SCHEDULER")>>)

\* pit::tick; on every TARGET_FREQUENCY-th tick it also takes UPTIME_SECONDS
pit_tick_path(second) ==
    <<Lock("TICKS"), Do("tick")>>
        \o (IF second THEN <<Lock("UPTIME_SECONDS"), Unlock("UPTIME_SECONDS")>>
            ELSE <<>>)
        \o <<Unlock("TICKS")>>

notify_end_of_interrupt_path == <<Lock("PICS"), Do("eoi"), Unlock("PICS")>>

\* scheduler::schedule(): SCHEDULER.lock(), Scheduler::schedule
schedule_path == <<Lock("SCHEDULER"), Do("schedule"), Unlock("SCHEDULER")>>

timer_interrupt_handler(second) ==
    pit_tick_path(second) \o notify_end_of_interrupt_path \o schedule_path

\* keyboard_interrupt_handler on a key that decodes to a character
keyboard_interrupt_handler ==
    <<Lock("KEYBOARD"), Lock("SCANCODE_BUFFER"), Unlock("SCANCODE_BUFFER"),
      Lock("KEY_BUFFER"), Unlock("KEY_BUFFER"), Unlock("KEYBOARD")>>
        \o notify_end_of_interrupt_path

ThreadFns ==
    {"get_ticks", "read_char", "spawn", "start_init_process",
     "sys_read", "sys_write", "sys_open", "sys_fstat"}

ThreadPath(fn) ==
    CASE fn = "get_ticks" -> get_ticks_path
      [] fn = "read_char" -> read_char_path
      [] fn = "spawn" -> spawn_path
      [] fn = "start_init_process" -> start_init_process_path
      [] fn = "sys_read" -> sys_read_path
      [] fn = "sys_write" -> sys_write_path
      [] fn = "sys_open" -> sys_open_path
      [] fn = "sys_fstat" -> sys_fstat_path

IsrFns == {"timer", "timer_second", "keyboard"}

IsrPath(fn) ==
    CASE fn = "timer" -> timer_interrupt_handler(FALSE)
      [] fn = "timer_second" -> timer_interrupt_handler(TRUE)
      [] fn = "keyboard" -> keyboard_interrupt_handler

\* the locks some interrupt handler takes
IsrLocks ==
    UNION {{IsrPath(fn)[i].lock :
               i \in {k \in DOMAIN IsrPath(fn) : IsrPath(fn)[k].op = "lock"}} :
           fn \in IsrFns}

Without(locks, l) == SelectSeq(locks, LAMBDA x : x # l)

\* where a function is after its step: at the next one, or out of it
Advance(at, path) ==
    IF at.step = Len(path) THEN NoFn ELSE [at EXCEPT !.step = @ + 1]

\* non-interrupt code enters a function
Call(fn) ==
    /\ thread = NoFn /\ isr = NoFn
    /\ thread' = [fn |-> fn, step |-> 1]
    /\ UNCHANGED <<held, interrupts_enabled, isr, isr_held, timer_events, notIrq>>

\* non-interrupt code runs its next step; spin::Mutex::lock spins while the
\* lock is held
ThreadStep ==
    /\ thread # NoFn /\ isr = NoFn
    /\ LET path == ThreadPath(thread.fn)
           st == path[thread.step]
       IN  /\ st.op = "lock" => st.lock \notin Range(held)
           /\ held' = CASE st.op = "lock" -> Append(held, st.lock)
                        [] st.op = "unlock" -> Without(held, st.lock)
                        [] OTHER -> held
           /\ interrupts_enabled' =
                 CASE st.op \in {"cli", "int"} -> FALSE
                   [] st.op \in {"sti", "iret"} -> TRUE
                   [] OTHER -> interrupts_enabled
           /\ thread' = Advance(thread, path)
    /\ UNCHANGED <<isr, isr_held, timer_events, notIrq>>

\* an interrupt is taken: the handlers are interrupt gates, so the flag is
\* cleared until the handler returns
Interrupt(fn) ==
    /\ interrupts_enabled /\ isr = NoFn
    /\ isr' = [fn |-> fn, step |-> 1]
    /\ interrupts_enabled' = FALSE
    /\ timer_events' = IF fn = "keyboard" THEN timer_events ELSE <<>>
    /\ UNCHANGED <<thread, held, isr_held, notIrq>>

\* the handler runs its next step; on a lock that the interrupted code holds
\* it spins, and that code cannot run to release it
IsrStep ==
    /\ isr # NoFn
    /\ LET path == IsrPath(isr.fn)
           st == path[isr.step]
       IN  /\ st.op = "lock" => st.lock \notin Range(held) \cup Range(isr_held)
           /\ isr_held' = CASE st.op = "lock" -> Append(isr_held, st.lock)
                            [] st.op = "unlock" -> Without(isr_held, st.lock)
                            [] OTHER -> isr_held
           /\ timer_events' =
                 IF st.op \in {"tick", "eoi", "schedule"} /\ isr.fn # "keyboard"
                 THEN Append(timer_events, st.op)
                 ELSE timer_events
           /\ isr' = Advance(isr, path)
           /\ interrupts_enabled' = (isr.step = Len(path))
    /\ UNCHANGED <<thread, held, notIrq>>

IrqNext ==
    \/ \E fn \in ThreadFns : Call(fn)
    \/ ThreadStep
    \/ \E fn \in IsrFns : Interrupt(fn)
    \/ IsrStep

IrqSpec == Init /\ [][IrqNext]_vars

\* the running handler is at a lock that the code it interrupted holds
IsrSpinning ==
    /\ isr # NoFn
    /\ IsrPath(isr.fn)[isr.step].op = "lock"
    /\ IsrPath(isr.fn)[isr.step].lock \in Range(held)

(* C13: the scheduler (task-table) lock and the VFS lock are never held at  *)
(* the same time: a syscall that needs both takes the VFS lock and releases *)
(* it before it takes the scheduler lock, never the scheduler lock first.   *)
C13_NeverBothLocks ==
    ~({"SCHEDULER", "VFS"} \subseteq Range(held))

(* C14: non-interrupt code holds a lock that an interrupt handler takes     *)
(* only while interrupts are disabled, so no handler ever spins on a lock   *)
(* held by the code it interrupted.                                         *)
C14_IsrLocksWithInterruptsOff ==
    /\ (isr = NoFn /\ Range(held) \cap IsrLocks # {}) => ~interrupts_enabled
    /\ ~IsrSpinning

(* C15: a timer handler run does, in this order: the tick increment, the    *)
(* scheduler's schedule(), the EOI; the EOI never comes before schedule().  *)
C15_TickScheduleEoi ==
    \E n \in 0..3 : timer_events = SubSeq(<<"tick", "schedule", "eoi">>, 1, n)

(***************************************************************************)
(* The VFS calls of fs/vfs/api.rs (mkdir, rmdir, unlink, rename, symlink)  *)
(* and of open with O_CREAT, each made under the VFS lock, so that calls   *)
(* do not interleave.  A panic halts the kernel.                           *)
(***************************************************************************)

\* "/a", "/b", "/a/b", "/", the relative "a", "/a/../b" and "/./a/"
PathInputs ==
    {<<"", "a">>, <<"", "b">>, <<"", "a", "b">>, RootPath,
     <<"a">>, <<"", "a", "..", "b">>, <<"", ".", "a", "">>}

CanCreate == ~vfs_panicked /\ VFS.next_inode <= MaxInode

\* the call leaves r.vfs behind and returns r.err, or panics
VfsReturn(r) ==
    /\ VFS' = r.vfs
    /\ vfs_panicked' = (r.err = "panic")
    /\ UNCHANGED notVfs

CreateFile(path) ==
    /\ CanCreate
    /\ VfsReturn(create_file(VFS, path, DIR_MODE))

CreateDevice(path) ==
    /\ CanCreate
    /\ VfsReturn(create_device(VFS, path, DIR_MODE))

CreateDirectory(path) ==
    /\ CanCreate
    /\ VfsReturn(create_directory(VFS, path, DIR_MODE))

CreateSymlink(path) ==
    /\ CanCreate
    /\ VfsReturn(create_symlink(VFS, path, 1))

RemoveFile(path) ==
    /\ ~vfs_panicked
    /\ VfsReturn(remove_file(VFS, path))

RemoveDirectory(path, overflow_checks) ==
    /\ ~vfs_panicked
    /\ VfsReturn(remove_directory(VFS, path, overflow_checks))

Rename(old_path, new_path) ==
    /\ ~vfs_panicked
    /\ VfsReturn(rename(VFS, old_path, new_path))

\* the calls that make and unmake directories and regular files
VfsNext ==
    \/ \E path \in PathInputs : CreateFile(path)
    \/ \E path \in PathInputs : CreateDirectory(path)
    \/ \E path \in PathInputs : RemoveFile(path)
    \/ \E path \in PathInputs, overflow_checks \in BOOLEAN :
           RemoveDirectory(path, overflow_checks)
    \/ \E old_path \in PathInputs, new_path \in PathInputs :
           Rename(old_path, new_path)

VfsSpec == Init /\ [][VfsNext]_vars

\* the calls that create and remove nodes of every file type
CreateNext ==
    \/ \E path \in PathInputs : CreateFile(path)
    \/ \E path \in PathInputs : CreateDevice(path)
    \/ \E path \in PathInputs : CreateDirectory(path)
    \/ \E path \in PathInputs : CreateSymlink(path)
    \/ \E path \in PathInputs : RemoveFile(path)
    \/ \E path \in PathInputs, overflow_checks \in BOOLEAN :
           RemoveDirectory(path, overflow_checks)

CreateSpec == Init /\ [][CreateNext]_vars

\* ---- the namespace: what the directories of the VFS hold ----

Inodes == DOMAIN VFS.nodes

Directories == {d \in Inodes : is_dir(VFS.nodes[d])}

EntriesOf(vfs, d) ==
    {vfs.nodes[d].data.entries[i] : i \in DOMAIN vfs.nodes[d].data.entries}

\* how many entries of directory d of vfs are called name
NameCount(vfs, d, name) ==
    Cardinality({i \in DOMAIN vfs.nodes[d].data.entries :
                    vfs.nodes[d].data.entries[i].name = name})

\* the directories that hold an entry for inode d under a name of its own
Holders(vfs, d) ==
    {p \in DOMAIN vfs.nodes :
        \E e \in EntriesOf(vfs, p) :
            e.inode = d /\ e.name \notin {".", ".."}}

\* C16: after any sequence of create_directory, remove_directory,
\* create_file, remove_file and rename, every directory d has exactly one
\* "." entry, with d's own inode, and, unless d is the root, exactly one ".."
\* entry, with the inode of the directory that currently holds d's entry.
C16_DotAndDotDot ==
    \A d \in Directories :
        /\ NameCount(VFS, d, ".") = 1
        /\ DirEntry_new(".", d, "Directory") \in EntriesOf(VFS, d)
        /\ d # RootInode =>
               /\ NameCount(VFS, d, "..") = 1
               /\ \A p \in Holders(VFS, d) :
                      DirEntry_new("..", p, "Directory") \in EntriesOf(VFS, d)

\* the entries of directory d of vfs, other than "." and "..", that are
\* directories
ChildDirectories(vfs, d) ==
    {i \in DOMAIN vfs.nodes[d].data.entries :
        /\ vfs.nodes[d].data.entries[i].file_type = "Directory"
        /\ vfs.nodes[d].data.entries[i].name \notin {".", ".."}}

\* C17: after any sequence of create_directory, remove_directory and rename,
\* the nlink of every directory is 2 plus the number of child directories it
\* currently contains.
C17_DirectoryLinkCount ==
    \A d \in Directories :
        VFS.nodes[d].nlink = 2 + Cardinality(ChildDirectories(VFS, d))

\* the namespace of vfs: what every node holds as directory entries
Namespace(vfs) == [d \in DOMAIN vfs.nodes |-> vfs.nodes[d].data.entries]

\* C18: rename(old, new) is atomic: either it succeeds, and the entry is
\* gone from the old parent and present under the new name in the new
\* parent with the same inode and file type, or it fails and the namespace
\* is exactly as before; the renamed object is never missing from both.
C18_RenameIsAtomic ==
    ~vfs_panicked =>
        \A old_path \in PathInputs, new_path \in PathInputs :
            LET r == rename(VFS, old_path, new_path)
                old_pn == get_parent_and_name(VFS, old_path)
                new_pn == get_parent_and_name(VFS, new_path)
                old_parent == lookup_path(VFS, old_pn.parent).node
                new_parent == lookup_path(VFS, new_pn.parent).node
                entry == lookup(old_parent, old_pn.name).entry
            IN  IF r.err = "Ok"
                THEN /\ DirEntry_new(new_pn.name, entry.inode, entry.file_type)
                            \in EntriesOf(r.vfs, new_parent.inode)
                     /\ <<old_parent.inode, old_pn.name>>
                            # <<new_parent.inode, new_pn.name>>
                        => NameCount(r.vfs, old_parent.inode, old_pn.name) = 0
                ELSE Namespace(r.vfs) = Namespace(VFS)

\* the file types create_file, create_device, create_directory and
\* create_symlink give their nodes
CreateTypes == {"Regular", "CharDevice", "Directory", "Symlink"}

\* the name path ends in is a name of an entry of its parent directory
NameExists(vfs, path) ==
    LET pn == get_parent_and_name(vfs, path)
        parent == lookup_path(vfs, pn.parent)
    IN  /\ pn.err = "Ok"
        /\ parent.err = "Ok"
        /\ is_dir(parent.node)
        /\ NameCount(vfs, parent.node.inode, pn.name) > 0

\* C19: creating a file, directory, symlink or device at a path whose name
\* already exists in the parent directory fails with EEXIST (AlreadyExists)
\* and leaves the VFS as it was: directory entries, inode map and inode
\* counter; so no two entries of one directory ever share a name.
C19_DuplicateCreateRefused ==
    /\ \A d \in Directories :
           \A e \in EntriesOf(VFS, d) : NameCount(VFS, d, e.name) = 1
    /\ \A path \in PathInputs, file_type \in CreateTypes :
           NameExists(VFS, path) =>
               LET r == create(VFS, path, file_type, DIR_MODE)
               IN  /\ r.err = "AlreadyExists"
                   /\ r.vfs = VFS

\* C20: remove_file on a directory fails (IsDirectory, EISDIR) and
\* remove_directory on a directory holding any entry other than "." and
\* ".." fails with NotEmpty (ENOTEMPTY), both leaving the namespace
\* unchanged; remove_directory on a directory holding only "." and ".."
\* succeeds and removes it.  Stated for the directories a path other than
\* "/" names, in every build of the kernel.
C20_RemoveRefusals ==
    ~vfs_panicked =>
        \A path \in PathInputs, overflow_checks \in BOOLEAN :
            LET target == lookup_path(VFS, path)
                unlinked == remove_file(VFS, path)
                removed == remove_directory(VFS, path, overflow_checks)
            IN  (/\ resolve_path(VFS, path) # RootPath
                 /\ target.err = "Ok"
                 /\ is_dir(target.node))
                => /\ unlinked.err = "IsDirectory"
                   /\ Namespace(unlinked.vfs) = Namespace(VFS)
                   /\ IF HasOtherEntries(target.node)
                      THEN /\ removed.err = "NotEmpty"
                           /\ Namespace(removed.vfs) = Namespace(VFS)
                      ELSE /\ removed.err = "Ok"
                           /\ target.node.inode \notin DOMAIN removed.vfs.nodes
                           /\ Holders(removed.vfs, target.node.inode) = {}

(***************************************************************************)
(* open and close of fs/vfs/api.rs, with mkdir and unlink                  *)
(***************************************************************************)
MaxOpen == 2

FlagInputs == {{}, {"O_CREAT"}, {"O_CREAT", "O_EXCL"}}

\* "/b", "/a/b" and the relative "b"
OpenPathInputs == {<<"", "b">>, <<"", "a", "b">>, <<"b">>}

\* 0o644, and 0o100755 whose file type bits are the caller's
ModeInputs == {420, 33261}

\* open_files keeps, with each FileDescriptor, the mode open was called with
\* and whether the path was there before the call (history)
Open(path, flags, mode) ==
    /\ CanCreate
    /\ Len(open_files) < MaxOpen
    /\ LET r == open(VFS, path, flags, mode)
       IN  /\ VFS' = r.vfs
           /\ open_files' =
                  IF r.err = "Ok"
                  THEN Append(open_files,
                              [fd |-> r.fd, requested |-> mode,
                               created |-> lookup_path(VFS, path).err # "Ok"])
                  ELSE open_files
    /\ UNCHANGED <<open_calls, vfs_panicked, notVfsApi>>

\* close consumes the FileDescriptor
Close ==
    /\ open_files # <<>>
    /\ open_files' = Tail(open_files)
    /\ UNCHANGED <<open_calls, vfsVars, notVfsApi>>

OpenNext ==
    \/ \E path \in OpenPathInputs, flags \in FlagInputs, mode \in ModeInputs :
           Open(path, flags, mode)
    \/ Close
    \/ CreateDirectory(<<"", "a">>)
    \/ \E path \in OpenPathInputs : RemoveFile(path)

OpenSpec == Init /\ [][OpenNext]_vars

\* the parent directory of path exists and path itself does not
Creatable(vfs, path) ==
    LET pn == get_parent_and_name(vfs, path)
        parent == lookup_path(vfs, pn.parent)
    IN  /\ lookup_path(vfs, path).err = "NotFound"
        /\ pn.err = "Ok"
        /\ parent.err = "Ok"
        /\ is_dir(parent.node)

\* open(path, O_CREAT, mode) creates one regular file of size 0 with the
\* permission bits of mode, and a later open without O_EXCL (and without
\* O_DIRECTORY) succeeds on the same inode and creates nothing
OpenCreatesOnce(vfs, path, mode) ==
    LET first == open(vfs, path, {"O_CREAT"}, mode)
        st == stat(first.vfs, path)
    IN  /\ first.err = "Ok"
        /\ first.fd.inode \notin DOMAIN vfs.nodes
        /\ DOMAIN first.vfs.nodes = DOMAIN vfs.nodes \cup {first.fd.inode}
        /\ st.err = "Ok"
        /\ st.stat.ino = first.fd.inode
        /\ st.stat.mode = "S_IFREG"
        /\ st.stat.size = 0
        /\ st.stat.perm = mode % (PERM_MASK + 1)
        /\ \A flags \in {{}, {"O_CREAT"}}, later_mode \in ModeInputs :
               LET again == open(first.vfs, path, flags, later_mode)
               IN  /\ again.err = "Ok"
                   /\ again.fd.inode = first.fd.inode
                   /\ again.vfs = first.vfs

\* C21 (as amended): open(p, O_CREAT, m) on a path that does not exist and
\* whose parent directory exists creates a regular file such that stat(p)
\* reports size 0 and mode & 0o7777 = m & 0o7777; a later open(p) without
\* O_EXCL succeeds and refers to the same inode, creating no second file.
C21_OpenCreates ==
    ~vfs_panicked =>
        \A path \in PathInputs, mode \in ModeInputs :
            Creatable(VFS, path) => OpenCreatesOnce(VFS, path, mode)

\* C21 as stated: for every path that does not exist
C21_OpenCreatesAnywhere ==
    ~vfs_panicked =>
        \A path \in PathInputs, mode \in ModeInputs :
            lookup_path(VFS, path).err = "NotFound"
                => OpenCreatesOnce(VFS, path, mode)

\* "/a/b" was created by open with mode 0o100755, and opened again
C21_Witness ==
    /\ Len(open_files) = 2
    /\ open_files[1].created
    /\ open_files[1].requested = 33261
    /\ ~open_files[2].created
    /\ "O_EXCL" \notin open_files[2].fd.flags
    /\ open_files[1].fd.path = <<"", "a", "b">>
    /\ open_files[2].fd.path = open_files[1].fd.path
    /\ open_files[2].fd.inode = open_files[1].fd.inode
    /\ LET st == stat(VFS, open_files[1].fd.path)
       IN  /\ st.err = "Ok"
           /\ st.stat.ino = open_files[1].fd.inode
           /\ st.stat.size = 0
           /\ st.stat.perm = 493

(***************************************************************************)
(* The mount table (fs/mount.rs).  Here a path string is written as the    *)
(* sequence of its characters, "/m/b" as <<"/", "m", "/", "b">>, since     *)
(* the table compares lengths and prefixes of strings.                     *)
(***************************************************************************)
NoMount == [path |-> <<>>, device |-> "", flags |-> {}, filesystem |-> "none"]

MountPoint(source, target, flags, filesystem) ==
    [path |-> target, device |-> source, flags |-> flags,
     filesystem |-> filesystem]

\* str::starts_with
starts_with(path, prefix) ==
    /\ Len(prefix) <= Len(path)
    /\ SubSeq(path, 1, Len(prefix)) = prefix

\* the mounts of table whose path has a length of at most len, longest
\* first, those of one length in the order they have in table
RECURSIVE sorted_up_to(_, _)
sorted_up_to(table, len) ==
    IF len < 0
    THEN <<>>
    ELSE SelectSeq(table, LAMBDA m : Len(m.path) = len)
             \o sorted_up_to(table, len - 1)

MaxPathLen(table) ==
    IF table = <<>>
    THEN 0
    ELSE CHOOSE n \in {Len(table[i].path) : i \in DOMAIN table} :
             \A i \in DOMAIN table : Len(table[i].path) <= n

\* table.sort_by(|a, b| b.path.len().cmp(&a.path.len())): a stable sort
sort_by_len_desc(table) == sorted_up_to(table, MaxPathLen(table))

\* table.iter().position(|m| m.path == target), 0 if there is none
MountPosition(table, target) ==
    IF \E i \in DOMAIN table : table[i].path = target
    THEN CHOOSE i \in DOMAIN table :
             /\ table[i].path = target
             /\ \A j \in 1..(i - 1) : table[j].path # target
    ELSE 0

\* mount without the sort after the push
mount_unsorted(table, source, target, flags, filesystem) ==
    IF \E i \in DOMAIN table : table[i].path = target
    THEN [table |-> table, err |-> "Busy"]
    ELSE [table |-> Append(table,
                           MountPoint(source, target, flags, filesystem)),
          err |-> "Ok"]

mount(table, source, target, flags, filesystem) ==
    IF \E i \in DOMAIN table : table[i].path = target
    THEN [table |-> table, err |-> "Busy"]
    ELSE [table |-> sort_by_len_desc(
                        Append(table,
                               MountPoint(source, target, flags, filesystem))),
          err |-> "Ok"]

umount(table, target) ==
    LET pos == MountPosition(table, target)
    IN  IF pos # 0
        THEN [table |-> SubSeq(table, 1, pos - 1)
                            \o SubSeq(table, pos + 1, Len(table)),
              err |-> "Ok"]
        ELSE [table |-> table, err |-> "NotFound"]

remount(table, target, flags) ==
    LET pos == MountPosition(table, target)
    IN  IF pos # 0
        THEN [table |-> [table EXCEPT ![pos].flags = flags], err |-> "Ok"]
        ELSE [table |-> table, err |-> "NotFound"]

\* the last mount of the table whose path the path starts with
find_mount_point_last(table, path) ==
    IF \E i \in DOMAIN table : starts_with(path, table[i].path)
    THEN table[CHOOSE i \in DOMAIN table :
                   /\ starts_with(path, table[i].path)
                   /\ \A j \in (i + 1)..Len(table) :
                          ~starts_with(path, table[j].path)]
    ELSE NoMount

\* the first mount of the table whose path the path starts with
find_mount_point(table, path) ==
    IF \E i \in DOMAIN table : starts_with(path, table[i].path)
    THEN table[CHOOSE i \in DOMAIN table :
                   /\ starts_with(path, table[i].path)
                   /\ \A j \in 1..(i - 1) : ~starts_with(path, table[j].path)]
    ELSE NoMount

\* "/", "/m", "/n", "/mb" and "/m/b"
TargetInputs ==
    {<<"/">>, <<"/", "m">>, <<"/", "n">>, <<"/", "m", "b">>,
     <<"/", "m", "/", "b">>}

\* the targets, and "/m/b/x", "/m/y", "/x" and the relative "m"
LookupInputs ==
    TargetInputs
        \cup {<<"/", "m", "/", "b", "/", "x">>, <<"/", "m", "/", "y">>,
              <<"/", "x">>, <<"m">>}

FilesystemInputs == {"fs-A", "fs-B"}

MountFlagInputs == {{}, {"RDONLY"}}

MountReturn(op, target, r) ==
    /\ MOUNT_TABLE' = r.table
    /\ mount_last' = [op |-> op, target |-> target, err |-> r.err]
    /\ UNCHANGED notMount

Mount(target, filesystem) ==
    MountReturn("mount", target,
                mount(MOUNT_TABLE, filesystem, target, {}, filesystem))

Umount(target) == MountReturn("umount", target, umount(MOUNT_TABLE, target))

Remount(target, flags) ==
    MountReturn("remount", target, remount(MOUNT_TABLE, target, flags))

MountNext ==
    \/ \E target \in TargetInputs, filesystem \in FilesystemInputs :
           Mount(target, filesystem)
    \/ \E target \in TargetInputs : Umount(target)
    \/ \E target \in TargetInputs, flags \in MountFlagInputs :
           Remount(target, flags)

MountSpec == Init /\ [][MountNext]_vars

\* C22: after any sequence of mount, umount and remount calls, successful or
\* failed, the mount table is sorted by target path length, descending.
C22_MountTableSorted ==
    \A i \in DOMAIN MOUNT_TABLE, j \in DOMAIN MOUNT_TABLE :
        i < j => Len(MOUNT_TABLE[i].path) >= Len(MOUNT_TABLE[j].path)

\* the mount that was pushed last is the longest of three and stands first
C22_Witness ==
    /\ mount_last = [op |-> "mount", target |-> <<"/", "m", "/", "b">>,
                     err |-> "Ok"]
    /\ Len(MOUNT_TABLE) = 3
    /\ MOUNT_TABLE[1].path = <<"/", "m", "/", "b">>
    /\ Len(MOUNT_TABLE[2].path) > Len(MOUNT_TABLE[3].path)

\* the places in table of the mounts whose target is a prefix of path
PrefixMounts(table, path) ==
    {i \in DOMAIN table : starts_with(path, table[i].path)}

Mounted(table, target, filesystem) ==
    \E i \in DOMAIN table :
        table[i].path = target /\ table[i].filesystem = filesystem

\* C23: find_mount_point(path) returns the mount whose target is the longest
\* of all mounted targets that are a prefix of path, none if no target is a
\* prefix, whatever order the mounts were added in; with fs-A at /m and fs-B
\* at /m/b, /m/b/x resolves to fs-B and /m/y to fs-A.
C23_LongestPrefixMount ==
    /\ \A path \in LookupInputs :
           LET found == find_mount_point(MOUNT_TABLE, path)
               prefixes == PrefixMounts(MOUNT_TABLE, path)
           IN  IF prefixes = {}
               THEN found = NoMount
               ELSE /\ \E i \in prefixes : found = MOUNT_TABLE[i]
                    /\ \A i \in prefixes :
                           Len(MOUNT_TABLE[i].path) <= Len(found.path)
    /\ (/\ Mounted(MOUNT_TABLE, <<"/", "m">>, "fs-A")
        /\ Mounted(MOUNT_TABLE, <<"/", "m", "/", "b">>, "fs-B"))
       => /\ find_mount_point(MOUNT_TABLE,
                              <<"/", "m", "/", "b", "/", "x">>).filesystem
                 = "fs-B"
          /\ find_mount_point(MOUNT_TABLE,
                              <<"/", "m", "/", "y">>).filesystem = "fs-A"

\* fs-A was mounted at /m before fs-B at /m/b, "/" is mounted as well, and
\* /m/b/x resolves to fs-B
C23_Witness ==
    /\ mount_last.op = "mount"
    /\ mount_last.target = <<"/", "m", "/", "b">>
    /\ mount_last.err = "Ok"
    /\ Mounted(MOUNT_TABLE, <<"/", "m">>, "fs-A")
    /\ Mounted(MOUNT_TABLE, <<"/", "m", "/", "b">>, "fs-B")
    /\ \E i \in DOMAIN MOUNT_TABLE : MOUNT_TABLE[i].path = <<"/">>
    /\ find_mount_point(MOUNT_TABLE,
                        <<"/", "m", "/", "b", "/", "x">>).filesystem = "fs-B"

\* the mounts other than target whose path lies below target
ChildMounts(table, target) ==
    {i \in DOMAIN table :
        table[i].path # target /\ starts_with(table[i].path, target)}

\* C24: umount("/") succeeds only when no other mount exists below "/";
\* while a child mount exists it fails and leaves the mount table unchanged.
C24_UmountRootNeedsNoChild ==
    LET r == umount(MOUNT_TABLE, <<"/">>)
    IN  ChildMounts(MOUNT_TABLE, <<"/">>) # {}
            => r.err # "Ok" /\ r.table = MOUNT_TABLE

-----------------------------------------------------------------------------
\* C30: in every reachable state a task has ppid = None only if its pid is 1
\* (init); every other task in the table, however it was created (fork or
\* spawn), has ppid = Some(parent pid).
C30_OnlyInitHasNoParent ==
    \A i \in DOMAIN SCHEDULER.tasks :
        SCHEDULER.tasks[i].ppid = NoPid => SCHEDULER.tasks[i].pid = 1

-----------------------------------------------------------------------------
(* The bump allocators during boot (main.rs, hal/mod.rs, hal/memory/heap.rs) *)

\* frames 0, 1 usable, 2 reserved, 3, 4 usable; and frames 1, 2, 3 usable
MemoryMapInputs ==
    {<<MemoryRegion(0, 2 * PAGE_SIZE, "Usable"),
       MemoryRegion(2 * PAGE_SIZE, 3 * PAGE_SIZE, "Reserved"),
       MemoryRegion(3 * PAGE_SIZE, 5 * PAGE_SIZE, "Usable")>>,
     <<MemoryRegion(PAGE_SIZE, 4 * PAGE_SIZE, "Usable")>>}

\* Some(frame) is handed to the caller, None is not a frame
HandOut(frame) ==
    frames_out' = IF frame # NoFrame
                  THEN Append(frames_out, frame)
                  ELSE frames_out

\* main.rs:34, the first use of the boot information
InitFromBootInfo(map) ==
    /\ memory_map = <<>> /\ FRAME_ALLOCATOR = <<>>
    /\ memory_map' = map
    /\ FRAME_ALLOCATOR' = <<BootInfoFrameAllocator_init>>
    /\ UNCHANGED <<hal_frame_allocator, frames_out, notFrame>>

\* hal::init, lines 27-29; main.rs calls it after init_from_boot_info
HalInit ==
    /\ FRAME_ALLOCATOR # <<>> /\ hal_frame_allocator = <<>>
    /\ hal_frame_allocator' = <<BootInfoFrameAllocator_init>>
    /\ UNCHANGED <<memory_map, FRAME_ALLOCATOR, frames_out, notFrame>>

\* one allocate_frame call of init_heap on the allocator of hal::init
HeapAllocateFrame ==
    /\ hal_frame_allocator # <<>>
    /\ hal_frame_allocator[1].next < MaxNext
    /\ LET r == BootInfoFrameAllocator_allocate_frame(hal_frame_allocator[1],
                                                      memory_map)
       IN  /\ hal_frame_allocator' = <<r.self>>
           /\ HandOut(r.frame)
    /\ UNCHANGED <<memory_map, FRAME_ALLOCATOR, notFrame>>

\* FRAME_ALLOCATOR.lock().as_mut().unwrap().allocate_frame()
GlobalAllocateFrame ==
    /\ FRAME_ALLOCATOR # <<>>
    /\ FRAME_ALLOCATOR[1].next < MaxNext
    /\ LET r == BootInfoFrameAllocator_allocate_frame(FRAME_ALLOCATOR[1],
                                                      memory_map)
       IN  /\ FRAME_ALLOCATOR' = <<r.self>>
           /\ HandOut(r.frame)
    /\ UNCHANGED <<memory_map, hal_frame_allocator, notFrame>>

BumpNext ==
    \/ \E map \in MemoryMapInputs : InitFromBootInfo(map)
    \/ HalInit
    \/ HeapAllocateFrame
    \/ GlobalAllocateFrame

BumpSpec == Init /\ [][BumpNext]_vars

\* C28: no physical frame is ever handed out twice: every frame returned by
\* any frame-allocator instance is distinct from every frame returned before.
C28_NoFrameHandedOutTwice ==
    \A i, j \in DOMAIN frames_out :
        i # j => frames_out[i] # frames_out[j]

-----------------------------------------------------------------------------
(* The bitmap allocator *)

StartAddrInputs == {0, 16 * PAGE_SIZE}

ZoneNew(start_addr) ==
    /\ zone = <<>>
    /\ zone' = <<BitmapFrameAllocator_new(start_addr, TotalFrames)>>
    /\ UNCHANGED <<zone_frames, notZone>>

ZoneAllocateFrame ==
    /\ zone # <<>>
    /\ LET r == BitmapFrameAllocator_allocate_frame(zone[1])
       IN  /\ zone' = <<r.self>>
           /\ zone_frames' = IF r.frame # NoFrame
                             THEN zone_frames \cup {r.frame}
                             ELSE zone_frames
    /\ UNCHANGED notZone

\* a frame the allocator returned is given back
ZoneDeallocateFrame(frame) ==
    /\ zone # <<>>
    /\ zone' = <<deallocate_frame(zone[1], frame)>>
    /\ zone_frames' = zone_frames \ {frame}
    /\ UNCHANGED notZone

\* a frame of the allocator's range is reserved
ZoneMarkUsed(frame) ==
    /\ zone # <<>>
    /\ frame \in zone[1].base_frame
                    ..(zone[1].base_frame + zone[1].total_frames - 1)
    /\ zone' = <<mark_used(zone[1], frame)>>
    /\ UNCHANGED <<zone_frames, notZone>>

ZoneNext ==
    \/ \E start_addr \in StartAddrInputs : ZoneNew(start_addr)
    \/ ZoneAllocateFrame
    \/ \E frame \in zone_frames : ZoneDeallocateFrame(frame)
    \/ \E frame \in 0..(16 + TotalFrames) : ZoneMarkUsed(frame)

ZoneSpec == Init /\ [][ZoneNext]_vars

\* C29: allocate_frame scans from next_free to the end and then from 0,
\* returns a frame inside the allocator's range whose bit was clear and sets
\* that bit; deallocate_frame on that same frame clears that same bit, so
\* allocate followed by deallocate restores the free-frame count and the
\* frame can be allocated again.
C29_AllocateThenDeallocate ==
    zone # <<>> =>
        LET self == zone[1]
            r == BitmapFrameAllocator_allocate_frame(self)
            frame_number == r.frame - self.base_frame
            given_back == deallocate_frame(r.self, r.frame)
        IN  r.frame # NoFrame =>
                /\ frame_number \in 0..(self.total_frames - 1)
                /\ frame_number \notin self.bitmap
                /\ frame_number \in r.self.bitmap
                /\ \/ frame_number >= self.next_free
                   \/ \A i \in self.next_free..(self.total_frames - 1) :
                          i \in self.bitmap
                /\ frame_number \notin given_back.bitmap
                /\ free_frames(given_back) = free_frames(self)
                /\ BitmapFrameAllocator_allocate_frame(given_back).frame
                       = r.frame

-----------------------------------------------------------------------------
(* The security checks (qsf/qsf.rs, qsf/modules) *)

\* CapabilityModule::check_file_capability; the module is enabled
check_file_capability(qsf, uid, mode) ==
    IF uid = 0
    THEN TRUE
    ELSE (mode \div 128) % 2 = 1 => uid \in qsf.user_capabilities

\* ConfinementModule::check_path_access; the module is enabled
check_path_access(qsf, pid, path) ==
    IF pid \notin DOMAIN qsf.process_confinements
    THEN TRUE
    ELSE LET confinement == qsf.process_confinements[pid]
         IN  IF \E i \in DOMAIN confinement.denied_paths :
                    starts_with(path, confinement.denied_paths[i])
             THEN FALSE
             ELSE IF confinement.allowed_paths = <<>>
                  THEN TRUE
                  ELSE \E i \in DOMAIN confinement.allowed_paths :
                           starts_with(path, confinement.allowed_paths[i])

\* QunixSecurityFramework::audit, without the timestamp
audit(qsf, pid, uid, action, resource, decision, reason) ==
    [qsf EXCEPT !.audit_log =
        Append(qsf.audit_log,
               [pid |-> pid, uid |-> uid, action |-> action,
                resource |-> resource, decision |-> decision,
                reason |-> reason])]

\* IntegrityModule::verify_path returns true on every path
check_file_access(qsf, pid, uid, path, mode) ==
    LET refused(reason) ==
            [qsf |-> audit(qsf, pid, uid, "file_access", path, "Deny", reason),
             decision |-> IF qsf.level = "Enforcing" THEN "Deny" ELSE "Audit"]
    IN  IF qsf.level = "Disabled"
        THEN [qsf |-> qsf, decision |-> "Allow"]
        ELSE IF ~check_file_capability(qsf, uid, mode)
             THEN refused("capability denied")
             ELSE IF ~check_path_access(qsf, pid, path)
                  THEN refused("confinement violation")
                  ELSE [qsf |-> qsf, decision |-> "Allow"]

\* ConfinementModule::confine through confine_process
confine_process(qsf, pid, paths) ==
    [qsf EXCEPT !.process_confinements =
        Insert(qsf.process_confinements, pid,
               [allowed_paths |-> paths, denied_paths |-> <<>>])]

unconfine_process(qsf, pid) ==
    [qsf EXCEPT !.process_confinements =
        Remove(qsf.process_confinements, pid)]

set_level(qsf, level) == [qsf EXCEPT !.level = level]

-----------------------------------------------------------------------------
(* The file syscalls (kernel/sys/syscalls.rs).  Each returns the task, the  *)
(* VFS and the security framework it leaves behind, and its value.          *)

EACCES == 13
EBADF == 9
ENOENT == 2
SEEK_SET == 0
SEEK_CUR == 1
SEEK_END == 2
STUB_FILE_SIZE == 10000   \* sys_lseek: "stub file size"

fs_error_to_errno(err) ==
    CASE err = "NotFound" -> 0 - 2
      [] err = "PermissionDenied" -> 0 - 13
      [] err = "AlreadyExists" -> 0 - 17
      [] err = "NotDirectory" -> 0 - 20
      [] err = "IsDirectory" -> 0 - 21
      [] err = "NotEmpty" -> 0 - 39
      [] err \in {"InvalidPath", "InvalidArgument"} -> 0 - 22
      [] OTHER -> 0 - 38

\* the string of a path: '/' between its components, each name one symbol
RECURSIVE path_string(_)
path_string(path) ==
    LET name == IF Head(path) = "" THEN <<>> ELSE <<Head(path)>>
    IN  IF Len(path) = 1
        THEN name
        ELSE name \o <<"/">> \o path_string(Tail(path))

\* the match on the result r of api::open, lines 217-233
sys_open_match(task, qsf, path, flags, r) ==
    LET newfd == task.next_fd
    IN  IF r.err = "Ok"
        THEN [task |-> [task EXCEPT
                           !.next_fd = newfd + 1,
                           !.fds = Insert(task.fds, newfd,
                                          [fd |-> newfd, path |-> path,
                                           offset |-> 0, flags |-> flags])],
              vfs |-> r.vfs, qsf |-> qsf, val |-> newfd]
        ELSE [task |-> task, vfs |-> r.vfs, qsf |-> qsf,
              val |-> fs_error_to_errno(r.err)]

\* no call of the security framework; mode is cut to 16 bits
sys_open(task, vfs, qsf, path, flags, mode) ==
    sys_open_match(task, qsf, path, flags,
                   open(vfs, path, flags, mode % 65536))

sys_close(task, fd) ==
    IF fd \in DOMAIN task.fds
    THEN [task |-> [task EXCEPT !.fds = Remove(task.fds, fd)], val |-> 0]
    ELSE [task |-> task, val |-> 0 - EBADF]

\* offsets that stay in 0..2^63-1, where the casts change nothing
sys_lseek(task, fd, offset, whence) ==
    IF fd \notin DOMAIN task.fds
    THEN [task |-> task, val |-> 0 - EBADF]
    ELSE IF whence \notin {SEEK_SET, SEEK_CUR, SEEK_END}
         THEN [task |-> task, val |-> EINVAL]
         ELSE LET new_offset ==
                      CASE whence = SEEK_SET -> offset
                        [] whence = SEEK_CUR -> task.fds[fd].offset + offset
                        [] whence = SEEK_END -> STUB_FILE_SIZE + offset
              IN  [task |-> [task EXCEPT !.fds[fd].offset = new_offset],
                   val |-> new_offset]

\* VfsNode::write of count bytes at offset; size is data.len()
VfsNode_write(node, offset, count) ==
    IF node.data.kind = "Regular"
    THEN [node |-> [node EXCEPT !.size = IF offset + count > node.size
                                         THEN offset + count
                                         ELSE node.size],
          err |-> "Ok"]
    ELSE [node |-> node, err |-> "InvalidArgument"]

\* VfsNode::truncate
VfsNode_truncate(node, size) ==
    IF node.data.kind = "Regular"
    THEN [node |-> [node EXCEPT !.size = size], err |-> "Ok"]
    ELSE [node |-> node, err |-> "InvalidArgument"]

\* VirtualFileSystem::truncate on what lookup_path_mut found
truncate_found(vfs, length, found) ==
    LET r == VfsNode_truncate(found.node, length)
    IN  IF found.err # "Ok"
        THEN [vfs |-> vfs, err |-> found.err]
        ELSE IF r.err # "Ok"
             THEN [vfs |-> vfs, err |-> r.err]
             ELSE [vfs |-> [vfs EXCEPT !.nodes[found.node.inode] = r.node],
                   err |-> "Ok"]

\* VirtualFileSystem::truncate: lookup_path_mut, then VfsNode::truncate
truncate(vfs, path, length) ==
    truncate_found(vfs, length, lookup_path(vfs, path))

\* sys_write on what lookup_path found for the path of fd
sys_write_found(task, vfs, fd, count, found) ==
    IF fd \notin DOMAIN task.fds
    THEN [task |-> task, vfs |-> vfs, val |-> 0 - EBADF]
    ELSE LET r == VfsNode_write(found.node, task.fds[fd].offset, count)
         IN  IF found.err # "Ok"
             THEN [task |-> task, vfs |-> vfs,
                   val |-> fs_error_to_errno(found.err)]
             ELSE IF r.err # "Ok"
                  THEN [task |-> task, vfs |-> vfs,
                        val |-> fs_error_to_errno(r.err)]
                  ELSE [task |-> [task EXCEPT !.fds[fd].offset = @ + count],
                        vfs |-> [vfs EXCEPT
                                    !.nodes[found.node.inode] = r.node],
                        val |-> count]

\* a write to a file fd (not 1 or 2): lookup_path, then write_node
sys_write(task, vfs, fd, count) ==
    sys_write_found(task, vfs, fd, count,
                    IF fd \in DOMAIN task.fds
                    THEN lookup_path(vfs, task.fds[fd].path)
                    ELSE [node |-> NoNode, err |-> "NotFound"])

\* the match on the result r of api::mkdir
sys_mkdir_match(r) ==
    [vfs |-> r.vfs,
     val |-> IF r.err = "Ok" THEN 0 ELSE fs_error_to_errno(r.err)]

\* api::mkdir
sys_mkdir(vfs, path, mode) ==
    sys_mkdir_match(create_directory(vfs, path, mode % 65536))

\* the path is stored as it is given
sys_chdir(task, path) ==
    [task |-> [task EXCEPT !.cwd = path], val |-> 0]

\* no call of the security framework
sys_execve(task, qsf, pathname) ==
    IF pathname = <<>>
    THEN [task |-> task, qsf |-> qsf, val |-> 0 - ENOENT]
    ELSE [task |-> [task EXCEPT !.name = pathname], qsf |-> qsf, val |-> 0]

-----------------------------------------------------------------------------
MaxFd == 4       \* fds are handed out up to MaxFd
MaxOffset == 2   \* writes and relative seeks stay at or below MaxOffset

\* "/a" and "/b"
SysPathInputs == {<<"", "a">>, <<"", "b">>}

SysFlagInputs == {{}, {"O_CREAT"}}

SysModeInputs == {420}

Fds == 3..MaxFd

SysReturn(r) ==
    /\ sys_task' = r.task
    /\ VFS' = r.vfs
    /\ UNCHANGED <<QSF, vfs_panicked, notSys>>

SysOpen(path, flags, mode) ==
    /\ CanCreate
    /\ sys_task.next_fd <= MaxFd
    /\ SysReturn(sys_open(sys_task, VFS, QSF, path, flags, mode))

SysClose(fd) ==
    /\ fd \in DOMAIN sys_task.fds
    /\ SysReturn([task |-> sys_close(sys_task, fd).task, vfs |-> VFS])

SysLseek(fd, offset, whence) ==
    /\ fd \in DOMAIN sys_task.fds
    /\ whence = SEEK_CUR => sys_task.fds[fd].offset + offset <= MaxOffset
    /\ SysReturn([task |-> sys_lseek(sys_task, fd, offset, whence).task,
                  vfs |-> VFS])

SysWrite(fd, count) ==
    /\ fd \in DOMAIN sys_task.fds
    /\ sys_task.fds[fd].offset + count <= MaxOffset
    /\ SysReturn(sys_write(sys_task, VFS, fd, count))

SysMkdir(path) ==
    /\ CanCreate
    /\ SysReturn([task |-> sys_task, vfs |-> sys_mkdir(VFS, path, DIR_MODE).vfs])

SysChdir(path) ==
    SysReturn([task |-> sys_chdir(sys_task, path).task, vfs |-> VFS])

SysExecve(pathname) ==
    SysReturn([task |-> sys_execve(sys_task, QSF, pathname).task, vfs |-> VFS])

Truncate(path, length) ==
    /\ ~vfs_panicked
    /\ SysReturn([task |-> sys_task, vfs |-> truncate(VFS, path, length).vfs])

QsfReturn(qsf) ==
    /\ QSF' = qsf
    /\ UNCHANGED <<sys_task, vfsVars, notSys>>

SetLevel(level) == QsfReturn(set_level(QSF, level))

ConfineProcess(pid, paths) == QsfReturn(confine_process(QSF, pid, paths))

UnconfineProcess(pid) == QsfReturn(unconfine_process(QSF, pid))

SysNext ==
    \/ \E path \in SysPathInputs, flags \in SysFlagInputs,
          mode \in SysModeInputs : SysOpen(path, flags, mode)
    \/ \E fd \in Fds : SysClose(fd)
    \/ \E fd \in Fds, offset \in 0..1,
          whence \in {SEEK_SET, SEEK_CUR, SEEK_END} :
           SysLseek(fd, offset, whence)
    \/ \E fd \in Fds : SysWrite(fd, 1)
    \/ SysMkdir(<<"", "a">>)
    \/ \E path \in SysPathInputs : SysChdir(path)
    \/ \E length \in 0..1 : Truncate(<<"", "b">>, length)

SysSpec == Init /\ [][SysNext]_vars

SecNext ==
    \/ \E level \in {"Disabled", "Permissive", "Enforcing"} : SetLevel(level)
    \/ ConfineProcess(sys_task.pid, <<<<"/", "a">>>>)
    \/ UnconfineProcess(sys_task.pid)
    \/ \E path \in SysPathInputs, flags \in SysFlagInputs,
          mode \in SysModeInputs : SysOpen(path, flags, mode)
    \/ \E fd \in Fds : SysClose(fd)
    \/ \E pathname \in SysPathInputs : SysExecve(pathname)
    \/ SysMkdir(<<"", "a">>)

SecSpec == Init /\ [][SecNext]_vars

\* C25: the syscall layer consults the security framework before open and
\* execve: in Enforcing mode a call whose check yields Deny returns -EACCES
\* and has no effect (no file created, no fd allocated, task unchanged); in
\* Permissive mode the same call proceeds and an audit entry is logged.
C25_OpenConsultsSecurity ==
    \A path \in SysPathInputs, flags \in SysFlagInputs, mode \in SysModeInputs :
        LET check == check_file_access(QSF, sys_task.pid, sys_task.uid,
                                       path_string(path), mode)
            r == sys_open(sys_task, VFS, QSF, path, flags, mode)
        IN  /\ check.decision = "Deny"
                   => /\ r.val = 0 - EACCES
                      /\ r.vfs = VFS
                      /\ r.task = sys_task
            /\ check.decision = "Audit"
                   => Len(r.qsf.audit_log) = Len(QSF.audit_log) + 1

\* C26: chdir(p) changes the current working directory only if p resolves
\* to an existing directory; if p does not exist or is not a directory it
\* returns a negative errno and the cwd is unchanged.
C26_ChdirValidates ==
    \A path \in SysPathInputs :
        LET found == lookup_path(VFS, path)
            r == sys_chdir(sys_task, path)
        IN  ~(found.err = "Ok" /\ is_dir(found.node))
                => r.val < 0 /\ r.task.cwd = sys_task.cwd

\* C27: lseek(fd, off, SEEK_END) sets fd.offset to (the file's current size
\* as reported by VFS stat) + off and returns that value, whatever writes or
\* truncations preceded it.
C27_SeekEndUsesFileSize ==
    \A fd \in DOMAIN sys_task.fds, offset \in 0..1 :
        LET st == stat(VFS, sys_task.fds[fd].path)
            r == sys_lseek(sys_task, fd, offset, SEEK_END)
        IN  st.err = "Ok"
                => /\ r.val = st.stat.size + offset
                   /\ r.task.fds[fd].offset = st.stat.size + offset

-----------------------------------------------------------------------------
\* target is path itself or ends where a component of path ends
AtComponentBoundary(path, target) ==
    /\ starts_with(path, target)
    /\ \/ Len(path) = Len(target)
       \/ target[Len(target)] = "/"
       \/ path[Len(target) + 1] = "/"

\* C40: find_mount_point matches mount targets only at path-component
\* boundaries: a path such as /mb/y, which shares only a character prefix
\* with the mounted target /m, is not resolved to the /m mount.
C40_MatchAtComponentBoundary ==
    \A path \in LookupInputs \cup {<<"/", "m", "b", "/", "y">>} :
        LET found == find_mount_point(MOUNT_TABLE, path)
        IN  found # NoMount => AtComponentBoundary(path, found.path)

-----------------------------------------------------------------------------
\* the entries, other than "." and "..", that refer to inode d: the
\* directory and the place in it
Referrers(vfs, d) ==
    {pi \in (DOMAIN vfs.nodes) \X (1..(MaxInode + 2)) :
        /\ pi[2] \in DOMAIN vfs.nodes[pi[1]].data.entries
        /\ vfs.nodes[pi[1]].data.entries[pi[2]].inode = d
        /\ vfs.nodes[pi[1]].data.entries[pi[2]].name \notin {".", ".."}}

\* the inodes reached from those of seen through entries other than "." and ".."
RECURSIVE ReachableFrom(_, _)
ReachableFrom(vfs, seen) ==
    LET more == {d \in DOMAIN vfs.nodes :
                    \E p \in seen : \E e \in EntriesOf(vfs, p) :
                        e.inode = d /\ e.name \notin {".", ".."}}
    IN  IF more \subseteq seen
        THEN seen
        ELSE ReachableFrom(vfs, seen \cup more)

\* C38: after any sequence of create, mkdir, unlink, rmdir and rename calls,
\* including calls that fail, every inode in the inode map other than the
\* root is reachable from the root through directory entries and is
\* referenced by exactly one entry other than "." and "..".
C38_EveryInodeReferencedOnce ==
    \A d \in DOMAIN VFS.nodes \ {RootInode} :
        /\ d \in ReachableFrom(VFS, {RootInode})
        /\ Cardinality(Referrers(VFS, d)) = 1

-----------------------------------------------------------------------------
(* The working directory of the VFS (fs/vfs/vfs.rs) *)

\* set_cwd on the resolved path and what lookup_path found for it
set_cwd_found(vfs, resolved, found) ==
    IF found.err # "Ok"
    THEN [vfs |-> vfs, err |-> found.err]
    ELSE IF ~is_dir(found.node)
         THEN [vfs |-> vfs, err |-> "NotDirectory"]
         ELSE [vfs |-> [vfs EXCEPT !.cwd = resolved], err |-> "Ok"]

set_cwd(vfs, path) ==
    set_cwd_found(vfs, resolve_path(vfs, path),
                  lookup_path(vfs, resolve_path(vfs, path)))

\* "..", "../b", "b/.././a", the empty string, and the paths of PathInputs
ResolveInputs ==
    PathInputs \cup {<<"..">>, <<"..", "b">>, <<"b", "..", ".", "a">>, <<"">>}

SetCwd(path) ==
    /\ ~vfs_panicked
    /\ VFS' = set_cwd(VFS, path).vfs
    /\ UNCHANGED <<vfs_panicked, notVfs>>

CwdNext ==
    \/ \E path \in ResolveInputs : CreateDirectory(path)
    \/ \E path \in ResolveInputs : CreateFile(path)
    \/ \E path \in ResolveInputs : SetCwd(path)

CwdSpec == Init /\ [][CwdNext]_vars

\* C33: for every cwd and every path p,
\* resolve_path(resolve_path(p)) = resolve_path(p).
C33_ResolveIdempotent ==
    \A path \in ResolveInputs :
        resolve_path(VFS, resolve_path(VFS, path)) = resolve_path(VFS, path)

\* the cwd is /a/b, where "../b" resolves to /a/b, ".." to /a and "/a/../b"
\* to /b
C33_Witness ==
    /\ VFS.cwd = <<"", "a", "b">>
    /\ resolve_path(VFS, <<"..", "b">>) = <<"", "a", "b">>
    /\ resolve_path(VFS, <<"..">>) = <<"", "a">>
    /\ resolve_path(VFS, <<"", "a", "..", "b">>) = <<"", "b">>

EFAULT == 0 - 14

ERANGE == 0 - 34

\* the size of the caller's buffer
GetcwdSize == 16

\* VirtualFileSystem::get_cwd copied into the caller's buffer: the cwd of
\* the one VFS, whichever task asks
sys_getcwd(vfs, size) ==
    IF size = 0
    THEN [buf |-> <<>>, val |-> EFAULT]
    ELSE IF Len(path_string(vfs.cwd)) + 1 > size
         THEN [buf |-> <<>>, val |-> ERANGE]
         ELSE [buf |-> vfs.cwd, val |-> Len(path_string(vfs.cwd))]

\* C39: after a successful chdir(p) by a task, getcwd by that task returns
\* the resolved p and the task's later relative paths are resolved against
\* it.
C39_GetcwdFollowsChdir ==
    \A path \in SysPathInputs :
        LET found == lookup_path(VFS, path)
            r == sys_chdir(sys_task, path)
        IN  (found.err = "Ok" /\ is_dir(found.node) /\ r.val = 0)
                => /\ sys_getcwd(VFS, GetcwdSize).buf = normalize_path(path)
                   /\ resolve_path(VFS, <<"b">>)
                          = normalize_path(path \o <<"b">>)

-----------------------------------------------------------------------------
(* Descriptor duplication (kernel/sys/syscalls.rs) *)

\* Task::allocate_fd: the counter, whatever the table holds
allocate_fd(task) ==
    [task |-> [task EXCEPT !.next_fd = task.next_fd + 1],
     fd |-> task.next_fd]

sys_dup(task, oldfd) ==
    IF oldfd \in DOMAIN task.fds
    THEN LET a == allocate_fd(task)
         IN  [task |-> [a.task EXCEPT
                           !.fds = Insert(a.task.fds, a.fd, task.fds[oldfd])],
              val |-> a.fd]
    ELSE [task |-> task, val |-> 0 - EBADF]

\* newfd is inserted as given; next_fd is not touched
sys_dup2(task, oldfd, newfd) ==
    IF oldfd \in DOMAIN task.fds
    THEN [task |-> [task EXCEPT
                       !.fds = Insert(task.fds, newfd, task.fds[oldfd])],
          val |-> newfd]
    ELSE [task |-> task, val |-> 0 - EBADF]

\* descriptor numbers given to dup2
Dup2Inputs == 3..(MaxFd + 1)

SysDup(oldfd) ==
    /\ oldfd \in DOMAIN sys_task.fds
    /\ sys_task.next_fd <= MaxFd
    /\ SysReturn([task |-> sys_dup(sys_task, oldfd).task, vfs |-> VFS])

SysDup2(oldfd, newfd) ==
    /\ oldfd \in DOMAIN sys_task.fds
    /\ SysReturn([task |-> sys_dup2(sys_task, oldfd, newfd).task,
                  vfs |-> VFS])

FdNext ==
    \/ \E path \in SysPathInputs, flags \in SysFlagInputs,
          mode \in SysModeInputs : SysOpen(path, flags, mode)
    \/ \E fd \in Dup2Inputs : SysClose(fd)
    \/ \E oldfd \in Dup2Inputs : SysDup(oldfd)
    \/ \E oldfd \in Dup2Inputs, newfd \in Dup2Inputs : SysDup2(oldfd, newfd)

FdSpec == Init /\ [][FdNext]_vars

\* C36: after any sequence of open, dup, dup2 and close by a task, a
\* descriptor number returned by open or dup is never one that is currently
\* open in that task's table.
C36_NewDescriptorIsUnused ==
    /\ \A path \in SysPathInputs :
           LET r == sys_open(sys_task, VFS, QSF, path, {"O_CREAT"}, 420)
           IN  r.val >= 0 => r.val \notin DOMAIN sys_task.fds
    /\ \A oldfd \in DOMAIN sys_task.fds :
           sys_dup(sys_task, oldfd).val \notin DOMAIN sys_task.fds

-----------------------------------------------------------------------------
(* api::open by two tasks (fs/vfs/api.rs) *)

\* the first block of open: the lookup under VFS.lock(), the node cloned;
\* the lock is dropped at the end of the block
open_lookup(vfs, path) ==
    [err |-> lookup_path(vfs, path).err, node |-> lookup_path(vfs, path).node]

\* the match on lookup_result, with VFS.lock() taken again for create_file:
\* vfs is the VFS as it is by then, created what create_file makes of it
open_match(vfs, path, flags, lookup_result, created) ==
    IF lookup_result.err = "Ok"
    THEN IF {"O_EXCL", "O_CREAT"} \subseteq flags
         THEN [vfs |-> vfs, err |-> "AlreadyExists", fd |-> NoFd]
         ELSE open_node(vfs, path, flags, lookup_result.node)
    ELSE IF lookup_result.err = "NotFound" /\ "O_CREAT" \in flags
    THEN IF created.err # "Ok"
         THEN [vfs |-> created.vfs, err |-> created.err, fd |-> NoFd]
         ELSE open_node(created.vfs, path, flags, created.node)
    ELSE [vfs |-> vfs, err |-> lookup_result.err, fd |-> NoFd]

\* "/a" and "/b"
RacePathInputs == {<<"", "a">>, <<"", "b">>}

RaceFlagInputs == {{}, {"O_CREAT"}}

\* task t enters open and leaves its first block
OpenLookup(t, path, flags) ==
    /\ ~vfs_panicked
    /\ open_calls[t].pc = "idle"
    /\ open_calls' =
           [open_calls EXCEPT
               ![t] = [NoCall EXCEPT !.pc = "looked", !.path = path,
                                     !.flags = flags, !.mode = 420,
                                     !.lookup_result = open_lookup(VFS, path)]]
    /\ UNCHANGED <<open_files, vfsVars, notVfsApi>>

OpenMatchReturn(t, r) ==
    /\ VFS' = r.vfs
    /\ open_calls' = [open_calls EXCEPT ![t].pc = "returned",
                                        ![t].err = r.err, ![t].fd = r.fd]
    /\ UNCHANGED <<open_files, vfs_panicked, notVfsApi>>

\* task t runs the rest of open and returns
OpenMatch(t) ==
    /\ CanCreate
    /\ open_calls[t].pc = "looked"
    /\ OpenMatchReturn(t,
           open_match(VFS, open_calls[t].path, open_calls[t].flags,
                      open_calls[t].lookup_result,
                      create_file(VFS, open_calls[t].path,
                                  open_calls[t].mode)))

\* task t is ready for its next call
OpenDone(t) ==
    /\ open_calls[t].pc = "returned"
    /\ open_calls' = [open_calls EXCEPT ![t] = NoCall]
    /\ UNCHANGED <<open_files, vfsVars, notVfsApi>>

RaceNext ==
    \/ \E t \in OpenTasks, path \in RacePathInputs, flags \in RaceFlagInputs :
           OpenLookup(t, path, flags)
    \/ \E t \in OpenTasks : OpenMatch(t)
    \/ \E t \in OpenTasks : OpenDone(t)

RaceSpec == Init /\ [][RaceNext]_vars

\* C35: if two tasks' open(p, O_CREAT) calls without O_EXCL on the same
\* nonexistent path interleave at lock boundaries, both calls succeed and
\* refer to one and the same inode: neither returns EEXIST.
C35_RacingOpensShareInode ==
    \A t, u \in OpenTasks :
        (/\ t # u
         /\ open_calls[t].pc = "returned"
         /\ open_calls[u].pc = "returned"
         /\ open_calls[t].path = open_calls[u].path
         /\ open_calls[t].flags = {"O_CREAT"}
         /\ open_calls[u].flags = {"O_CREAT"}
         /\ open_calls[t].lookup_result.err = "NotFound"
         /\ open_calls[u].lookup_result.err = "NotFound")
            => /\ open_calls[t].err = "Ok"
               /\ open_calls[u].err = "Ok"
               /\ open_calls[t].fd.inode = open_calls[u].fd.inode

-----------------------------------------------------------------------------
(* Kernel stacks (kernel/scheduler/task.rs) *)

MaxStackPid == 4     \* pids in the table stay <= MaxStackPid
MaxFrees == 3        \* frees of one stack are counted up to MaxFrees

\* Task::new: a kernel task gets the stack at ptr, a user task none
Task_new_stack(pid, is_kernel, ptr) ==
    [pid |-> pid, kernel_stack |-> IF is_kernel THEN ptr ELSE 0,
     is_kernel_task |-> is_kernel]

\* #[derive(Clone)] for Task: every field copied, the pointer included
Task_clone(task) ==
    [pid |-> task.pid, kernel_stack |-> task.kernel_stack,
     is_kernel_task |-> task.is_kernel_task]

\* Task::fork, the fields kept here: a clone with the child's pid
Task_fork_stack(self, child_pid) ==
    [Task_clone(self) EXCEPT !.pid = child_pid]

\* Drop for Task: Box::from_raw(kernel_stack) is dropped
Task_drop(task, frees) ==
    IF task.is_kernel_task /\ task.kernel_stack # 0
    THEN [frees EXCEPT ![task.kernel_stack] = @ + 1]
    ELSE frees

\* sys_fork by the task at index i: cloned_parent is dropped when the
\* function returns
sys_fork_stack(table, frees, i) ==
    LET cloned_parent == Task_clone(table.tasks[i])
        child_pid == table.next_pid
        child_task == Task_fork_stack(cloned_parent, child_pid)
    IN  [table |-> [tasks |-> Append(table.tasks, child_task),
                    next_pid |-> child_pid + 1],
         frees |-> Task_drop(cloned_parent, frees)]

\* scheduler::get_task: the clone is the caller's, dropped when the caller
\* is done with it
get_task_cloned(table, frees, i) ==
    [table |-> table, frees |-> Task_drop(Task_clone(table.tasks[i]), frees)]

\* tasks.remove(pos) of remove_zombie, tasks.retain of sys_wait4: the Task
\* taken out of the Vec is dropped
remove_task(table, frees, i) ==
    [table |-> [table EXCEPT !.tasks = RemoveAt(table.tasks, i)],
     frees |-> Task_drop(table.tasks[i], frees)]

\* scheduler::spawn: a user task
spawn_stack(table) ==
    [tasks |-> Append(table.tasks,
                      Task_new_stack(table.next_pid, FALSE, 0)),
     next_pid |-> table.next_pid + 1]

StackReturn(r) ==
    /\ stack_table' = r.table
    /\ stack_frees' = r.frees
    /\ UNCHANGED notStack

\* frees of the stack of task i can still be counted
CanFree(i) ==
    LET t == stack_table.tasks[i]
    IN  t.kernel_stack # 0 => stack_frees[t.kernel_stack] < MaxFrees

\* start_init_process: Task::new(1, "init", .., true)
StackStartInit ==
    /\ stack_table.tasks = <<>> /\ stack_table.next_pid = 1
    /\ \E ptr \in Stacks :
           StackReturn([table |-> [tasks |-> <<Task_new_stack(1, TRUE, ptr)>>,
                                   next_pid |-> 2],
                        frees |-> stack_frees])

StackSpawn ==
    /\ stack_table.next_pid \in 2..MaxStackPid
    /\ StackReturn([table |-> spawn_stack(stack_table),
                    frees |-> stack_frees])

StackSysFork(i) ==
    /\ stack_table.next_pid <= MaxStackPid
    /\ CanFree(i)
    /\ StackReturn(sys_fork_stack(stack_table, stack_frees, i))

StackGetTask(i) ==
    /\ CanFree(i)
    /\ StackReturn(get_task_cloned(stack_table, stack_frees, i))

StackRemove(i) ==
    /\ CanFree(i)
    /\ StackReturn(remove_task(stack_table, stack_frees, i))

StackNext ==
    \/ StackStartInit
    \/ StackSpawn
    \/ \E i \in DOMAIN stack_table.tasks : StackSysFork(i)
    \/ \E i \in DOMAIN stack_table.tasks : StackGetTask(i)
    \/ \E i \in DOMAIN stack_table.tasks : StackRemove(i)

StackSpec == Init /\ [][StackNext]_vars

\* C37: each kernel stack is owned by exactly one task and is freed exactly
\* once, when that task is removed from the task table: no stack of a task
\* still in the table has been freed, and no stack is freed twice.
C37_StackOwnedAndFreedOnce ==
    /\ \A s \in Stacks : stack_frees[s] <= 1
    /\ \A i \in DOMAIN stack_table.tasks :
           LET t == stack_table.tasks[i]
           IN  (t.is_kernel_task /\ t.kernel_stack # 0)
                   => /\ stack_frees[t.kernel_stack] = 0
                      /\ \A j \in DOMAIN stack_table.tasks :
                             stack_table.tasks[j].kernel_stack
                                 = t.kernel_stack => j = i

-----------------------------------------------------------------------------
(* FAT cluster chains (fs/fat32/fat.rs) *)

FAT32_EOC == 268435448

FAT32_BAD == 268435447

FAT32_FREE == 0

\* 0x0FFFFFFF + 1: FAT entries are 28 bits wide
FAT32_ENTRY_RANGE == 268435456

\* entries[cluster]; the Vec is indexed from 0
FatTable_get(entries, cluster) ==
    IF cluster >= Len(entries) THEN FAT32_BAD ELSE entries[cluster + 1]

FatTable_set(entries, cluster, value) ==
    IF cluster < Len(entries)
    THEN [entries EXCEPT ![cluster + 1] = value % FAT32_ENTRY_RANGE]
    ELSE entries

\* the while loop of get_chain
RECURSIVE get_chain_loop(_, _, _)
get_chain_loop(entries, chain, cur) ==
    IF cur >= 2 /\ cur < FAT32_BAD
    THEN IF Len(chain) + 1 > Len(entries)
         THEN Append(chain, cur)
         ELSE get_chain_loop(entries, Append(chain, cur),
                             FatTable_get(entries, cur))
    ELSE chain

get_chain(entries, start_cluster) ==
    get_chain_loop(entries, <<>>, start_cluster)

\* free, clusters 2 and 3, a cluster past the table, bad, end of chain
FatValueInputs == {FAT32_FREE, 2, 3, 5, FAT32_BAD, FAT32_EOC}

StartClusterInputs == {0, 1, 2, 3, 5}

FatSet(cluster, value) ==
    /\ fat_table' = FatTable_set(fat_table, cluster, value)
    /\ UNCHANGED <<fat_chain, notFat>>

FatGetChain(start_cluster) ==
    /\ fat_chain' = get_chain(fat_table, start_cluster)
    /\ UNCHANGED <<fat_table, notFat>>

FatNext ==
    \/ \E cluster \in 2..(FatSize - 1), value \in FatValueInputs :
           FatSet(cluster, value)
    \/ \E start_cluster \in StartClusterInputs : FatGetChain(start_cluster)

FatSpec == Init /\ [][FatNext]_vars

\* C31: for every FAT and start cluster c, get_chain(c) returns the list
\* c, FAT[c], FAT[FAT[c]], ... ending just before the first end-of-chain or
\* bad entry, and the length of the returned list never exceeds the number
\* of FAT entries, even when the FAT contains a cycle.
C31_ChainBoundedByFat ==
    \A c \in StartClusterInputs :
        LET chain == get_chain(fat_table, c)
        IN  /\ Len(chain) <= Len(fat_table)
            /\ \A k \in 1..(Len(chain) - 1) :
                   chain[k + 1] = FatTable_get(fat_table, chain[k])
            /\ c \in 2..(FAT32_BAD - 1) => chain # <<>> /\ chain[1] = c

-----------------------------------------------------------------------------
(* Long file names (fs/fat32/dir.rs, fs/fat32/fat32.rs) *)

MaxLfn == 3          \* LFN records in front of one directory record
MaxNames == 1        \* names one read_directory call is followed for

LAST_LONG_ENTRY == 64

ATTR_LONG_NAME == 15

\* size_of::<Fat32LfnEntry>(): the struct is packed
LFN_ENTRY_SIZE == 32

\* the bytes of u16 values, little endian
RECURSIVE U16Bytes(_)
U16Bytes(units) ==
    IF units = <<>>
    THEN <<>>
    ELSE <<Head(units) % 256, Head(units) \div 256>> \o U16Bytes(Tail(units))

\* #[repr(C, packed)] Fat32LfnEntry as it lies in memory: ord at byte 0,
\* name1 at 1, attr 11, entry_type 12, checksum 13, name2 at 14,
\* fst_clus_lo 26, name3 at 28
Fat32LfnEntry_bytes(e) ==
    <<e.ord>> \o U16Bytes(e.name1) \o <<e.attr, e.entry_type, e.checksum>>
        \o U16Bytes(e.name2) \o U16Bytes(<<e.fst_clus_lo>>)
        \o U16Bytes(e.name3)

sequence_number(e) == e.ord % 64

\* the scan for name1_offset, name2_offset and name3_offset: each is set to
\* i while it is still 0 and the array fits, and the scan stops once none
\* is 0
RECURSIVE name_offsets(_, _, _, _, _)
name_offsets(i, name1_offset, name2_offset, name3_offset, size) ==
    LET o1 == IF name1_offset = 0 /\ i + 5 * 2 <= size
              THEN i ELSE name1_offset
        o2 == IF name2_offset = 0 /\ i + 6 * 2 <= size
              THEN i ELSE name2_offset
        o3 == IF name3_offset = 0 /\ i + 2 * 2 <= size
              THEN i ELSE name3_offset
    IN  IF i >= size
        THEN <<name1_offset, name2_offset, name3_offset>>
        ELSE IF o1 # 0 /\ o2 # 0 /\ o3 # 0
        THEN <<o1, o2, o3>>
        ELSE name_offsets(i + 1, o1, o2, o3, size)

\* copy_nonoverlapping of count u16 values that start at byte offset
copy_u16(bytes, offset, count) ==
    [k \in 1..count |-> bytes[offset + 2 * k - 1]
                            + 256 * bytes[offset + 2 * k]]

\* the copies read the record byte by byte at the offsets the scan found
get_name_chars(e) ==
    LET offsets == name_offsets(0, 0, 0, 0, LFN_ENTRY_SIZE)
        bytes == Fat32LfnEntry_bytes(e)
    IN  copy_u16(bytes, offsets[1], 5) \o copy_u16(bytes, offsets[2], 6)
            \o copy_u16(bytes, offsets[3], 2)

\* the inner loop of decode_long_name: the units before the first 0x0000
\* or 0xFFFF
RECURSIVE name_units(_)
name_units(chars) ==
    IF chars = <<>> \/ Head(chars) = 0 \/ Head(chars) = 65535
    THEN <<>>
    ELSE <<Head(chars)>> \o name_units(Tail(chars))

\* String::from_utf16_lossy on units without surrogate pairs: a lone
\* surrogate becomes U+FFFD, any other unit is its own character
from_utf16_lossy(units) ==
    [k \in DOMAIN units |-> IF units[k] \in 55296..57343
                            THEN 65533 ELSE units[k]]

\* the outer loop: entries.iter().rev()
RECURSIVE decode_units(_)
decode_units(entries) ==
    IF entries = <<>>
    THEN <<>>
    ELSE name_units(get_name_chars(entries[Len(entries)]))
            \o decode_units(SubSeq(entries, 1, Len(entries) - 1))

decode_long_name(entries) == from_utf16_lossy(decode_units(entries))

\* Vec::sort_by_key(|e| e.sequence_number()): stable, ascending
RECURSIVE sort_by_sequence_number(_)
sort_by_sequence_number(entries) ==
    IF entries = <<>>
    THEN <<>>
    ELSE LET last == entries[Len(entries)]
             front == sort_by_sequence_number(
                          SubSeq(entries, 1, Len(entries) - 1))
             keep == {k \in DOMAIN front :
                         sequence_number(front[k]) <= sequence_number(last)}
         IN  SubSeq(front, 1, Cardinality(keep)) \o <<last>>
                 \o SubSeq(front, Cardinality(keep) + 1, Len(front))

\* the name read_directory gives a directory record that is neither free
\* nor a volume id: short is what entry.short_name() returns
entry_name(entries, short) ==
    IF entries # <<>>
    THEN decode_long_name(sort_by_sequence_number(entries))
    ELSE short

Fat32LfnEntry(ord, name1, name2, name3) ==
    [ord |-> ord, name1 |-> name1, attr |-> ATTR_LONG_NAME, entry_type |-> 0,
     checksum |-> 7, name2 |-> name2, fst_clus_lo |-> 0, name3 |-> name3]

\* record 1 "ABCDEFGHIJKLM"; record 2 "nopqrstuvwxyz"; record 2 as the last
\* one, "no" with its terminator and padding; record 3 as the last one, "3"
LfnInputs ==
    {Fat32LfnEntry(1, <<65, 66, 67, 68, 69>>, <<70, 71, 72, 73, 74, 75>>,
                   <<76, 77>>),
     Fat32LfnEntry(2, <<110, 111, 112, 113, 114>>,
                   <<115, 116, 117, 118, 119, 120>>, <<121, 122>>),
     Fat32LfnEntry(2 + LAST_LONG_ENTRY, <<110, 111, 0, 65535, 65535>>,
                   <<65535, 65535, 65535, 65535, 65535, 65535>>,
                   <<65535, 65535>>),
     Fat32LfnEntry(3 + LAST_LONG_ENTRY, <<51, 0, 65535, 65535, 65535>>,
                   <<65535, 65535, 65535, 65535, 65535, 65535>>,
                   <<65535, 65535>>)}

\* "SHORT.TXT" as short_name() returns it
ShortNameInputs == {<<83, 72, 79, 82, 84, 46, 84, 88, 84>>}

\* read_directory is called
ReadDirectory ==
    /\ dir_names # <<>>
    /\ lfn_entries' = <<>>
    /\ dir_names' = <<>>
    /\ UNCHANGED notDir

\* the record at i is a long-name record
ReadLongName(lfn) ==
    /\ Len(lfn_entries) < MaxLfn
    /\ Len(dir_names) < MaxNames
    /\ lfn_entries' = Append(lfn_entries, lfn)
    /\ UNCHANGED <<dir_names, notDir>>

\* the record at i is free or a volume id
ReadFreeEntry ==
    /\ lfn_entries # <<>>
    /\ lfn_entries' = <<>>
    /\ UNCHANGED <<dir_names, notDir>>

\* the record at i is a file's or a directory's
ReadEntry(short) ==
    /\ Len(dir_names) < MaxNames
    /\ dir_names' = Append(dir_names, entry_name(lfn_entries, short))
    /\ lfn_entries' = <<>>
    /\ UNCHANGED notDir

DirNext ==
    \/ ReadDirectory
    \/ \E lfn \in LfnInputs : ReadLongName(lfn)
    \/ ReadFreeEntry
    \/ \E short \in ShortNameInputs : ReadEntry(short)

DirSpec == Init /\ [][DirNext]_vars

\* the records carry the sequence numbers 1..n, each once
NumberedOneToN(entries) ==
    /\ entries # <<>>
    /\ \A k \in 1..Len(entries) :
           Cardinality({j \in DOMAIN entries :
                           sequence_number(entries[j]) = k}) = 1

\* name1, name2 and name3 of the records in ascending sequence-number order
RECURSIVE NamesAscending(_, _)
NamesAscending(entries, k) ==
    IF k > Len(entries)
    THEN <<>>
    ELSE LET e == entries[CHOOSE j \in DOMAIN entries :
                              sequence_number(entries[j]) = k]
         IN  name_units(e.name1 \o e.name2 \o e.name3)
                 \o NamesAscending(entries, k + 1)

\* C32: for a directory record preceded by LFN records with sequence
\* numbers 1..n stored in any order, the long name produced is the
\* concatenation of the records' name characters in ascending
\* sequence-number order, each record contributing its name1, name2 and
\* name3 fields in that order.
C32_LongNameAscending ==
    \A short \in ShortNameInputs :
        NumberedOneToN(lfn_entries)
            => entry_name(lfn_entries, short) = NamesAscending(lfn_entries, 1)

-----------------------------------------------------------------------------
\* C34: with preemption enabled and timer ticks continuing, every Ready
\* task becomes Running again within a bounded number of time slices; no
\* runnable task is ever left in state Ready while absent from every ready
\* queue.
C34_ReadyTaskIsQueued ==
    \A pid \in Pids :
        (SCHEDULER.preemption_enabled /\ IsReady(SCHEDULER, pid))
            => Occurrences(SCHEDULER, pid) >= 1

====
